---- MODULE Spec2Model ----
(***************************************************************************)
(* A model of the memo-rize memory engine: the extraction worker           *)
(* (process_queue.py), the enqueuer (legacy_local/enqueue.py), the         *)
(* retrieval hook (vault_retrieve.py), the graph cache (vault_embed.py,    *)
(* process_queue.py) and the reflector's stale marking (vault_reflect.py). *)
(*                                                                         *)
(* Text files are sequences of lines.  A line is a record [k, v]: k is the *)
(* field name of a `field: value` line, "---" for a frontmatter delimiter, *)
(* "auto" for the Auto-extension header written by EXTENDS, and "text" for *)
(* any other line (v = "" is the empty line).                              *)
(*                                                                         *)
(* Each component has its own specification (SpecNote, SpecQueue, ...);    *)
(* the variables of the other components stay at their idle values.        *)
(***************************************************************************)
EXTENDS Integers, Sequences, FiniteSets, TLC

VARIABLES
    vault,      \* VAULT_NOTES_DIR/*.md : note id -> content, for the files that exist
    prev,       \* the vault as it was when the last write_note call started
    call,       \* the arguments of the last write_note call
    written,    \* the paths the last write_note call renamed a temp file onto
    ncalls,     \* number of write_note calls made so far
    \* --- the ticket queue: enqueue.py and process_queue.main ---
    vaultDir,     \* VAULT_NOTES_DIR.exists()
    transcripts,  \* session -> [exists, events, texts]: the JSONL transcript
    queue,        \* QUEUE_DIR/*.json in mtime order: sequence of [name, turn_count]
    processed,    \* QUEUE_DIR/processed/*.json : name -> [turn_count]
    enq,          \* the running enqueue.py process: [pc, session, turn_count]
    mainPc,       \* process_queue.main: "idle", "run" (inside the for loop), "done"
    todo,         \* the tickets main still has to handle, in order
    picked,       \* the tickets main picked up in this run (its glob)
    fx,           \* side effects of the worker, counted: notes, chunks, graph, upserts
    lastLog,      \* the last line the worker logged: [kind, name]
    runs,         \* number of main runs started
    grown,        \* session -> events added to the transcript since it was processed
    touched,      \* sessions whose ticket files enqueue.py changed since main started
    lastEnq,      \* the last decision of enqueue.py: [session, wrote, wasProcessed, grown]
    \* --- the graph cache ---
    gcache,       \* GRAPH_CACHE_PATH: [outbound, backlinks], each id -> list of ids
    npatch,       \* number of incremental patches applied
    \* --- fix_wikilinks_in_content ---
    linkIn,       \* the content given to fix_wikilinks_in_content (a token sequence)
    linkOut,      \* its result
    linkDone,     \* whether the function has been applied
    \* --- the retrieval hook: vault_retrieve.main ---
    stdin,          \* what the hook reads: [kind, promptLen]
    rcfg,           \* config.py switches: [bm25, rerank, source]
    rpc,            \* the position of main
    vector_results, \* note ids returned by the vector query, best first
    primary,        \* the primary notes
    lines,          \* the block being built
    stdout,         \* the lines written to standard output
    exitStatus,     \* the exit status of the process, -1 while it runs
    retrLog,        \* number of lines the hook appended to the log
    rwhy,           \* how the run ended
    \* --- one note file under concurrent access ---
    noteFile,     \* the bytes of VAULT_NOTES_DIR/a.md as a reader would get them now
    tmpFile,      \* the temp file of write_file_atomic: [exists, content]
    writerPc,     \* the position of the worker inside write_file_atomic
    writerBuf,    \* the content the worker is writing
    reflectPc,    \* the position of the reflector inside its stale marking
    reflectBuf,   \* the content the reflector holds in memory
    seen,         \* what the last concurrent read returned: [read, content]
    versions,     \* the complete contents the note has had or is being given
    nfw,          \* number of writes of the note file started
    \* --- process_ticket, one fact at a time ---
    lastFact,     \* the last fact handled: what it carried and what the store did
    \* --- the indexes ---
    points,       \* the vector store: note id -> payload [last_retrieved]
    bm25,         \* BM25_INDEX_PATH: the note ids of the persistent index
    validIds,     \* valid_ids as process_ticket last computed it
    liveIds,      \* the note ids of the last live BM25 scan of the retrieval hook
    \* --- the reflector ---
    archive,      \* FORGET_ARCHIVE_DIR: note id -> content
    lastArchive,  \* the last archive_expired_notes call: what it was given and what failed
    meta,         \* parse_frontmatter of the notes: id -> [forget_after, type, created]
    ttl,          \* FORGET_DEFAULT_TTL_DAYS: type -> days
    expiredOut,   \* what find_expired_notes returned: [done, ids]
    others,       \* number of further notes of the vault (neither expired nor stale)
    lastReflect,  \* the last run of the reflector's main: its flags and what it found
    primary_ids,  \* retrieval, graph traversal: the ids of the primary notes, in output order
    sim,          \* the indexed notes in descending similarity to the query
    candidate_ids,\* what collect_bfs_candidates returned
    scoredList,   \* main's `scored` list: entries [note_id, score]
    gblock,       \* the entries printed under the graph header
    patchFailed,  \* update_last_retrieved: a set_payload call raised
    bpc,          \* position of main in the graph traversal
    chunkDir,     \* SOURCE_CHUNKS_DIR exists
    chunks,       \* the files of SOURCE_CHUNKS_DIR: note id -> content
    chunksOn,     \* SOURCE_CHUNKS_ENABLED
    lastSave,     \* the last save_source_chunk call: its arguments and what failed
    nsave,        \* number of save_source_chunk calls made
    wlock,        \* worker.lock: 0 when free, else the invocation that holds it
    wpc,          \* the position of each invocation of the extraction worker
    wtodo,        \* the tickets each invocation still has to visit
    wcur,         \* the ticket each invocation is processing
    wqueue,       \* the tickets of QUEUE_DIR
    wdone,        \* the tickets of QUEUE_DIR/processed
    handledBy,    \* ticket -> the invocations that ran process_ticket on it
    wruns,        \* number of invocations started
    arg,          \* the argument of the function under check
    ret,          \* what the function returned
    called        \* the function has been applied

noteVars == <<vault, prev, call, written, ncalls>>

queueVars == <<vaultDir, transcripts, queue, processed, enq, mainPc, todo, picked,
               fx, lastLog, runs, grown, touched, lastEnq>>

graphVars == <<gcache, npatch>>

linkVars == <<linkIn, linkOut, linkDone>>

retrVars == <<stdin, rcfg, rpc, vector_results, primary, lines, stdout, exitStatus,
              retrLog, rwhy>>

fileVars == <<noteFile, tmpFile, writerPc, writerBuf, reflectPc, reflectBuf, seen, versions, nfw>>

factVars == <<lastFact>>

storeVars == <<points, bm25>>

indexVars == <<validIds, liveIds>>

reflVars == <<archive, lastArchive, meta, ttl, expiredOut, others, lastReflect>>

\* the variables of the components added after the file model
blockVars == <<primary_ids, sim, candidate_ids, scoredList, gblock, patchFailed, bpc>>

pureVars == <<arg, ret, called>>

chunkVars == <<chunkDir, chunks, chunksOn, lastSave, nsave>>

workerVars == <<wlock, wpc, wtodo, wcur, wqueue, wdone, handledBy, wruns>>

\* the variables of the specifications that follow the graph traversal
tailVars == <<pureVars, chunkVars, workerVars>>

\* what the application of a function leaves alone
pureRest == <<noteVars, queueVars, graphVars, linkVars, retrVars, fileVars, factVars,
              storeVars, indexVars, reflVars, blockVars, chunkVars, workerVars>>

\* what a save_source_chunk call leaves alone
chunkRest == <<noteVars, queueVars, graphVars, linkVars, retrVars, fileVars, factVars,
               storeVars, indexVars, reflVars, blockVars, pureVars, workerVars>>

\* what a step of the extraction worker leaves alone besides the notes
workerRestTail == <<queueVars, graphVars, linkVars, retrVars, fileVars, factVars,
                    storeVars, indexVars, reflVars, blockVars, pureVars, chunkVars>>

moreVars == <<factVars, storeVars, indexVars, reflVars, blockVars, tailVars>>

\* what the steps of SpecFact leave alone besides the vault
factRest == <<queueVars, graphVars, linkVars, retrVars, fileVars, storeVars, indexVars,
              reflVars, blockVars, tailVars>>

\* what the steps of SpecIndex leave alone besides the indexes
indexRest == <<noteVars, queueVars, linkVars, retrVars, fileVars, factVars, reflVars,
               blockVars, tailVars>>

vars == <<vault, prev, call, written, ncalls,
          vaultDir, transcripts, queue, processed, enq, mainPc, todo, picked,
          fx, lastLog, runs, grown, touched, lastEnq,
          gcache, npatch, linkIn, linkOut, linkDone,
          stdin, rcfg, rpc, vector_results, primary, lines, stdout, exitStatus,
          retrLog, rwhy,
          noteFile, tmpFile, writerPc, writerBuf, reflectPc, reflectBuf, seen, versions, nfw,
          lastFact, points, bm25, validIds, liveIds, archive, lastArchive,
          meta, ttl, expiredOut, others, lastReflect,
          primary_ids, sim, candidate_ids, scoredList, gblock, patchFailed, bpc,
          arg, ret, called, chunkDir, chunks, chunksOn, lastSave, nsave,
          wlock, wpc, wtodo, wcur, wqueue, wdone, handledBy, wruns>>

-----------------------------------------------------------------------------
(* Bounds *)

MaxCalls == 2

MaxRuns == 2

MaxFacts == 1

MaxEvents == 15

MaxPatches == 2

MaxLinkLen == 5

MaxFileWrites == 2

MaxDedupFacts == 1

MaxArchiveRuns == 2

MaxDay == 6

MaxOthers == 30

MaxReflectRuns == 2

MaxTail == 3

MaxJsonLen == 4

MaxRankLen == 3

MaxQueryLen == 2

MaxDocs == 3

MaxNoteLinks == 3

MaxSaves == 2

MaxConvLen == 3

MaxFactList == 2

MaxIndexLen == 2

MaxWorkerRuns == 3

MaxParseLinks == 3

MaxTranscript == 3

-----------------------------------------------------------------------------
(* Lines and contents *)

Ln(k, v) == [k |-> k, v |-> v]

FM == Ln("---", "")

Blank == Ln("text", "")

Min(S) == CHOOSE x \in S : \A y \in S : x <= y

CountLines(content, k, v) ==
    Cardinality({i \in 1..Len(content) : content[i] = Ln(k, v)})

\* a full note: frontmatter, blank line, body
FullNote(desc, body) ==
    <<FM, Ln("description", desc), FM, Blank, Ln("text", body)>>

\* text without frontmatter (what the extractor returns for EXTENDS)
PlainText(body) == <<Ln("text", body)>>

-----------------------------------------------------------------------------
(* process_queue.py: note writing *)

\* f"\n{field}:" in content : some line after the first starts with `field:`
HasFieldLine(content, field) ==
    \E i \in 2..Len(content) : content[i].k = field

\* the positions of "\n---\n": a `---` line that is neither first nor last
ClosingPositions(content) ==
    {i \in 2..(Len(content) - 1) : content[i] = FM}

_inject_frontmatter_field(content, field, value) ==
    IF HasFieldLine(content, field) THEN content
    ELSE IF ClosingPositions(content) = {} THEN content
    ELSE LET i == Min(ClosingPositions(content))
         IN  SubSeq(content, 1, i - 1) \o <<Ln(field, value)>>
                 \o SubSeq(content, i, Len(content))

\* "superseded_by:" in content
MentionsSuperseded(content) ==
    \E i \in 1..Len(content) : content[i].k = "superseded_by"

\* the result of a file operation: the vault and the paths written, in order
Res(v, w) == [vault |-> v, writes |-> w]

\* write_file_atomic seen at the level of whole calls: the file is replaced
write_file_atomic(r, path, content) ==
    Res((path :> content) @@ r.vault, Append(r.writes, path))

_add_superseded_by(r, target_id, successor_id) ==
    LET content == r.vault[target_id]
        updated == _inject_frontmatter_field(content, "superseded_by", successor_id)
    IN  IF MentionsSuperseded(content) THEN r
        ELSE IF updated # content THEN write_file_atomic(r, target_id, updated)
        ELSE r

\* one character of a file that is not modelled as a line: "cr" is a carriage
\* return, "lf" a line feed
Ch(c) == Ln("char", c)

\* Path.read_text: text mode with universal newlines, so `\r\n` and a lone
\* `\r` are read as `\n`
read_text(content) ==
    LET IsCh(i, c) == content[i] = Ch(c)
        out == [i \in 1..Len(content) |->
                   IF IsCh(i, "cr") THEN Ch("lf")
                   ELSE IF IsCh(i, "lf") /\ i > 1 /\ content[IF i > 1 THEN i - 1 ELSE 1] = Ch("cr")
                        THEN Ln("none", "")
                   ELSE content[i]]
    IN  SelectSeq(out, LAMBDA l : l # Ln("none", ""))

Extension(note_id, content) ==
    <<Blank, FM, Ln("auto", note_id), Blank>> \o content

write_note_new(r, note_id, content) ==
    write_file_atomic(r, note_id, _inject_frontmatter_field(content, "relation", "new"))

\* a plausible slip: UPDATES also creates <note_id>.md
write_note_alsoNew(v, note_id, content, relation) ==
    LET r0 == Res(v, <<>>)
        t  == relation.target
    IN  IF relation.kind \in {"UPDATES", "EXTENDS"} /\ t \in DOMAIN v
        THEN write_note_new(write_file_atomic(r0, t, content), note_id, content)
        ELSE write_note_new(r0, note_id, content)

write_note(v, note_id, content, relation) ==
    LET r0 == Res(v, <<>>)
        t  == relation.target
    IN  IF relation.kind = "UPDATES" /\ t \in DOMAIN v
        THEN LET c1 == _inject_frontmatter_field(content, "relation", "updates")
                 c2 == _inject_frontmatter_field(c1, "parent_note", t)
             IN  write_file_atomic(_add_superseded_by(r0, t, note_id), t, c2)
        ELSE IF relation.kind = "EXTENDS" /\ t \in DOMAIN v
        THEN write_file_atomic(r0, t, read_text(v[t]) \o Extension(note_id, content))
        ELSE write_note_new(r0, note_id, content)

-----------------------------------------------------------------------------
(* Idle values of the ticket-queue variables *)

Sessions == {"s0", "s1"}

NoTranscript == [exists |-> FALSE, events |-> 0, texts |-> 0]

EnqIdle == [pc |-> "idle", session |-> "", turn_count |-> 0]

NoFx == [notes |-> 0, chunks |-> 0, graph |-> 0, upserts |-> 0]

NoLog == [kind |-> "", name |-> ""]

NoEnq == [session |-> "", wrote |-> FALSE, wasProcessed |-> FALSE, grown |-> 0]

QueueIdle ==
    /\ vaultDir = TRUE
    /\ transcripts = [s \in Sessions |-> NoTranscript]
    /\ queue = <<>>
    /\ processed = <<>>
    /\ enq = EnqIdle
    /\ mainPc = "idle"
    /\ todo = <<>>
    /\ picked = {}
    /\ fx = NoFx
    /\ lastLog = NoLog
    /\ runs = 0
    /\ grown = [s \in Sessions |-> 0]
    /\ touched = {}
    /\ lastEnq = NoEnq

NoCache == [outbound |-> <<>>, backlinks |-> <<>>]

GraphIdle ==
    /\ gcache = NoCache
    /\ npatch = 0

LinksIdle ==
    /\ linkIn = <<>>
    /\ linkOut = <<>>
    /\ linkDone = FALSE

NoStdin == [kind |-> "empty", promptLen |-> 0]

NoCfg == [bm25 |-> FALSE, rerank |-> FALSE, source |-> FALSE]

RetrieveIdle ==
    /\ stdin = NoStdin
    /\ rcfg = NoCfg
    /\ rpc = "idle"
    /\ vector_results = <<>>
    /\ primary = <<>>
    /\ lines = <<>>
    /\ stdout = <<>>
    /\ exitStatus = -1
    /\ retrLog = 0
    /\ rwhy = ""

NoTmp == [exists |-> FALSE, content |-> <<>>]

NoRead == [read |-> FALSE, content |-> <<>>]

FileIdle ==
    /\ noteFile = <<>>
    /\ tmpFile = NoTmp
    /\ writerPc = "idle"
    /\ writerBuf = <<>>
    /\ reflectPc = "idle"
    /\ reflectBuf = <<>>
    /\ seen = NoRead
    /\ versions = {}
    /\ nfw = 0

NoFact == [note_id |-> "", content |-> <<>>, relation |-> [kind |-> "NONE", target |-> ""],
           store |-> "", hit |-> "none", nearest |-> "none",
           answer |-> [is_dup |-> FALSE, target_id |-> ""], fails |-> FALSE]

FactIdle == lastFact = NoFact

StoreIdle ==
    /\ points = <<>>
    /\ bm25 = {}

IndexIdle ==
    /\ validIds = {}
    /\ liveIds = {}

NoArchive == [runs |-> 0, expired |-> {}, vault |-> <<>>, points |-> <<>>,
              renameFailed |-> {}, deleteFailed |-> FALSE]

NoExpired == [done |-> FALSE, ids |-> {}]

NoReflect ==
    [runs |-> 0, apply |-> FALSE, json |-> FALSE, total |-> 0, expired |-> {}, stale |-> {}]

ReflectIdle ==
    /\ archive = <<>>
    /\ lastArchive = NoArchive
    /\ meta = <<>>
    /\ ttl = <<>>
    /\ expiredOut = NoExpired
    /\ others = 0
    /\ lastReflect = NoReflect

BlockIdle ==
    /\ primary_ids = <<>>
    /\ sim = <<>>
    /\ candidate_ids = <<>>
    /\ scoredList = <<>>
    /\ gblock = <<>>
    /\ patchFailed = FALSE
    /\ bpc = "idle"

PureIdle ==
    /\ arg = <<>>
    /\ ret = <<>>
    /\ called = FALSE

NoSave == [note_id |-> "", relation |-> [kind |-> "NONE", target |-> ""],
           conversation |-> <<>>, fail |-> "none"]

ChunkIdle ==
    /\ chunkDir = FALSE
    /\ chunks = <<>>
    /\ chunksOn = FALSE
    /\ lastSave = NoSave
    /\ nsave = 0

WorkerIdle ==
    /\ wlock = 0
    /\ wpc = <<>>
    /\ wtodo = <<>>
    /\ wcur = <<>>
    /\ wqueue = {}
    /\ wdone = {}
    /\ handledBy = <<>>
    /\ wruns = 0

TailIdle == PureIdle /\ ChunkIdle /\ WorkerIdle

PureRestIdle ==
    /\ QueueIdle /\ GraphIdle /\ LinksIdle /\ RetrieveIdle /\ FileIdle
    /\ FactIdle /\ StoreIdle /\ IndexIdle /\ ReflectIdle /\ BlockIdle /\ ChunkIdle
    /\ WorkerIdle

ChunkRestIdle ==
    /\ QueueIdle /\ GraphIdle /\ LinksIdle /\ RetrieveIdle /\ FileIdle
    /\ FactIdle /\ StoreIdle /\ IndexIdle /\ ReflectIdle /\ BlockIdle /\ PureIdle
    /\ WorkerIdle

WorkerRestIdle ==
    /\ QueueIdle /\ GraphIdle /\ LinksIdle /\ RetrieveIdle /\ FileIdle
    /\ FactIdle /\ StoreIdle /\ IndexIdle /\ ReflectIdle /\ BlockIdle /\ PureIdle
    /\ ChunkIdle

MoreIdle == FactIdle /\ StoreIdle /\ IndexIdle /\ ReflectIdle /\ BlockIdle /\ TailIdle

FactRestIdle ==
    /\ QueueIdle /\ GraphIdle /\ LinksIdle /\ RetrieveIdle /\ FileIdle
    /\ StoreIdle /\ IndexIdle /\ ReflectIdle /\ BlockIdle /\ TailIdle

\* NoteIdle is about the vault and is stated by each specification
IndexRestIdle ==
    QueueIdle /\ LinksIdle /\ RetrieveIdle /\ FileIdle /\ FactIdle /\ ReflectIdle /\ BlockIdle /\ TailIdle

OthersIdleForNote ==
    QueueIdle /\ GraphIdle /\ LinksIdle /\ RetrieveIdle /\ FileIdle /\ MoreIdle

-----------------------------------------------------------------------------
(* SpecNote: a sequence of write_note calls on a vault *)

NoteIds == {"a", "b", "n"}

Targets == {"a", "b"}

Rel(kind, target) == [kind |-> kind, target |-> target]

Relations ==
    {Rel("NEW", "")} \cup {Rel(k, t) : k \in {"UPDATES", "EXTENDS"}, t \in Targets}

FactContents == {FullNote("d1", "x"), FullNote("d2", "y"), PlainText("z")}

NoCall == [note_id |-> "", content |-> <<>>, relation |-> Rel("NONE", "")]

InitVaults ==
    { ("a" :> FullNote("d0", "old")),
      ("a" :> FullNote("d0", "old")) @@ ("b" :> PlainText("w")) }

NoteIdle ==
    /\ prev = vault
    /\ call = NoCall
    /\ written = <<>>
    /\ ncalls = 0

InitNote ==
    /\ vault \in InitVaults
    /\ NoteIdle
    /\ OthersIdleForNote

WriteNote(note_id, content, relation) ==
    /\ ncalls < MaxCalls
    /\ LET r == write_note(vault, note_id, content, relation)
       IN  /\ vault' = r.vault
           /\ written' = r.writes
    /\ prev' = vault
    /\ call' = [note_id |-> note_id, content |-> content, relation |-> relation]
    /\ ncalls' = ncalls + 1
    /\ UNCHANGED <<queueVars, graphVars, linkVars, retrVars, fileVars, moreVars>>

NextNote ==
    \E note_id \in NoteIds, content \in FactContents, relation \in Relations :
        WriteNote(note_id, content, relation)

SpecNote == InitNote /\ [][NextNote]_vars

TargetExisted ==
    /\ call.relation.kind \in {"UPDATES", "EXTENDS"}
    /\ call.relation.target \in DOMAIN prev

TargetMissing ==
    /\ call.relation.kind \in {"UPDATES", "EXTENDS"}
    /\ call.relation.target \notin DOMAIN prev

\* C1: after write_note applies UPDATES:<target> for a fact with id N to a
\* target that exists, the target's file holds the line `superseded_by: N`
\* exactly once.
C1_SupersededByOnce ==
    (call.relation.kind = "UPDATES" /\ TargetExisted)
        => CountLines(vault[call.relation.target], "superseded_by", call.note_id) = 1

\* C6: with a missing UPDATES/EXTENDS target, <note_id>.md is created holding
\* the fact's content with `relation: new` in its frontmatter (the content
\* with that one line added), and no <target>.md is created.
C6_MissingTargetIsNew ==
    (TargetMissing /\ call.note_id # call.relation.target)
        => /\ call.note_id \in DOMAIN vault
           /\ CountLines(vault[call.note_id], "relation", "new") = 1
           /\ \E i \in 1..Len(vault[call.note_id]) :
                 /\ vault[call.note_id][i] = Ln("relation", "new")
                 /\ call.content = SubSeq(vault[call.note_id], 1, i - 1)
                       \o SubSeq(vault[call.note_id], i + 1, Len(vault[call.note_id]))
           /\ call.relation.target \notin DOMAIN vault

ExpectedPath ==
    IF TargetExisted THEN call.relation.target ELSE call.note_id

\* C7: each write_note call writes exactly one file of the vault: the target
\* when the relation is UPDATES/EXTENDS and the target exists (and then no
\* <note_id>.md is created), otherwise <note_id>.md; every other note file is
\* left as it was.
C7_OneFilePerCall ==
    (call # NoCall)
        => /\ {written[i] : i \in 1..Len(written)} = {ExpectedPath}
           /\ DOMAIN vault = DOMAIN prev \cup {ExpectedPath}
           /\ \A id \in DOMAIN prev \ {ExpectedPath} : vault[id] = prev[id]
           /\ (TargetExisted /\ call.note_id \notin DOMAIN prev)
                 => call.note_id \notin DOMAIN vault

C7_Witness ==
    /\ call.relation.kind = "UPDATES"
    /\ TargetExisted
    /\ call.note_id = "n"
    /\ Len(written) = 2
    /\ "b" \in DOMAIN vault
    /\ call.relation.target = "a"
    /\ vault["a"] # prev["a"]

-----------------------------------------------------------------------------
(* The ticket queue: legacy_local/enqueue.py and process_queue.main *)

MIN_TURNS == 5

MIN_NEW_TURNS == 10

\* enqueue.py count_turns: every JSONL event of type user or assistant
count_turns(s) == transcripts[s].events

\* extract_conversation's total_turns: one per non-empty text (a string
\* content, or each text block of a list content); tool_use / tool_result
\* blocks and empty texts are not counted
extract_conversation_turns(s) == transcripts[s].texts

QNames(q) == {q[i].name : i \in 1..Len(q)}

QRemove(q, name) == SelectSeq(q, LAMBDA t : t.name # name)

QGet(q, name) == (CHOOSE i \in 1..Len(q) : q[i].name = name)

\* write_text of a ticket: the file is (re)written and gets the newest mtime
QPut(q, name, turn_count) ==
    Append(QRemove(q, name), [name |-> name, turn_count |-> turn_count])

Without(f, x) == [n \in DOMAIN f \ {x} |-> f[n]]

\* Session s0 is an old session: its ticket may still be pending while its
\* transcript file is gone.  Session s1 is the live one.
\* The transcript of a session gets more events: e events of which t carry
\* text turns (a tool-only event adds to e alone; an event with text adds to both).
GrowSteps == {[e |-> 5, t |-> 5], [e |-> 10, t |-> 0]}

Grow(s, g) ==
    /\ s = "s1"
    /\ transcripts[s].exists \/ transcripts[s].events = 0
    /\ transcripts[s].events + g.e <= MaxEvents
    /\ transcripts' = [transcripts EXCEPT ![s] =
           [exists |-> TRUE, events |-> @.events + g.e, texts |-> @.texts + g.t]]
    /\ grown' = [grown EXCEPT ![s] = @ + g.e]
    /\ UNCHANGED <<vaultDir, queue, processed, enq, mainPc, todo, picked, fx,
                   lastLog, runs, touched, lastEnq>>
    /\ UNCHANGED <<noteVars, graphVars, linkVars, retrVars, fileVars, moreVars>>

\* the transcript file is removed
LoseTranscript(s) ==
    /\ transcripts[s].exists
    /\ transcripts' = [transcripts EXCEPT ![s].exists = FALSE]
    /\ UNCHANGED <<vaultDir, queue, processed, enq, mainPc, todo, picked, fx,
                   lastLog, runs, grown, touched, lastEnq>>
    /\ UNCHANGED <<noteVars, graphVars, linkVars, retrVars, fileVars, moreVars>>

Decision(s, wrote) ==
    [session |-> s, wrote |-> wrote, wasProcessed |-> s \in DOMAIN processed,
     grown |-> grown[s]]

\* enqueue.py main, up to and including the processed/ check (lines 55-87)
EnqueueCheck(s) ==
    /\ enq.pc = "idle"
    /\ LET turn_count == count_turns(s)
           go == /\ transcripts[s].exists
                 /\ turn_count >= MIN_TURNS
                 /\ s \in DOMAIN processed
                       => turn_count - processed[s].turn_count >= MIN_NEW_TURNS
       IN  /\ lastEnq' = Decision(s, go)
           /\ IF go
              THEN /\ enq' = [pc |-> "write", session |-> s, turn_count |-> turn_count]
                   /\ processed' = Without(processed, s)
                   /\ touched' = IF s \in DOMAIN processed THEN touched \cup {s} ELSE touched
              ELSE UNCHANGED <<enq, processed, touched>>
    /\ UNCHANGED <<vaultDir, transcripts, queue, mainPc, todo, picked, fx,
                   lastLog, runs, grown>>
    /\ UNCHANGED <<noteVars, graphVars, linkVars, retrVars, fileVars, moreVars>>

\* enqueue.py main, writing the ticket (lines 89-100)
EnqueueWrite ==
    /\ enq.pc = "write"
    /\ queue' = QPut(queue, enq.session, enq.turn_count)
    /\ touched' = touched \cup {enq.session}
    /\ enq' = EnqIdle
    /\ UNCHANGED <<vaultDir, transcripts, processed, mainPc, todo, picked, fx,
                   lastLog, runs, grown, lastEnq>>
    /\ UNCHANGED <<noteVars, graphVars, linkVars, retrVars, fileVars, moreVars>>

\* _archive(ticket_path, session_id, turn_count)
_archive(q, p, name, turn_count) ==
    IF name \in QNames(q)
    THEN LET data == q[QGet(q, name)]
             tc   == IF turn_count > 0 THEN turn_count ELSE data.turn_count
         IN  [queue |-> QRemove(q, name),
              processed |-> (name :> [turn_count |-> tc]) @@ p]
    ELSE [queue |-> q,
          processed |-> (name :> [turn_count |-> turn_count]) @@ p]

\* A fact as process_ticket sees it after the validation pass: what the
\* extractor returned, what check_semantic_dup answers for it (dup = "" for no
\* hit) and whether writing it raises (fails).  The ids are slugs already and
\* the contents hold no wikilinks.
Fact(note_id, content, relation, dup, fails) ==
    [note_id |-> note_id, content |-> content, relation |-> relation,
     dup |-> dup, fails |-> fails]

FactSet ==
    { Fact("n", FullNote("d1", "x"), Rel("NEW", ""), "", FALSE),
      Fact("n", FullNote("d1", "x"), Rel("NEW", ""), "", TRUE),
      Fact("m", PlainText("z"), Rel("EXTENDS", "a"), "", FALSE),
      Fact("", <<>>, Rel("NEW", ""), "", FALSE) }

SeqsUpTo(S, n) == UNION {[1..k -> S] : k \in 0..n}

Bump(f) == [notes |-> f.notes + 1, chunks |-> f.chunks + 1,
            graph |-> f.graph + 1, upserts |-> f.upserts + 1]

\* the body of the `for fact in facts` loop (lines 797-839)
apply_fact(st, f) ==
    IF f.note_id = "" \/ f.content = <<>> THEN st
    ELSE LET relation == IF f.relation.kind = "NEW" /\ f.dup # ""
                         THEN Rel("EXTENDS", f.dup) ELSE f.relation
         IN  IF f.fails THEN st
             ELSE [vault |-> write_note(st.vault, f.note_id, f.content, relation).vault,
                   fx |-> Bump(st.fx)]

RECURSIVE apply_facts(_, _)
apply_facts(st, facts) ==
    IF facts = <<>> THEN st
    ELSE apply_facts(apply_fact(st, Head(facts)), Tail(facts))

Outcome(v, q, p, f, kind, archived) ==
    [vault |-> v, queue |-> q, processed |-> p, fx |-> f, log |-> kind,
     archived |-> archived]

\* process_ticket(ticket_path); facts is what extraction and validation yield
process_ticket(name, facts) ==
    IF name \notin QNames(queue)
    THEN Outcome(vault, queue, processed, fx, "TICKET_ERROR", FALSE)
    ELSE IF ~vaultDir
    THEN Outcome(vault, queue, processed, fx, "VAULT_MISSING", FALSE)
    ELSE IF ~transcripts[name].exists
    THEN LET a == _archive(queue, processed, name, 0)
         IN  Outcome(vault, a.queue, a.processed, fx, "NO_TRANSCRIPT", TRUE)
    ELSE LET turn_count == extract_conversation_turns(name)
             a  == _archive(queue, processed, name, turn_count)
             st == apply_facts([vault |-> vault, fx |-> fx], facts)
         IN  IF facts = <<>>
             THEN Outcome(vault, a.queue, a.processed, fx, "NO_FACTS", TRUE)
             ELSE Outcome(st.vault, a.queue, a.processed, st.fx, "ARCHIVED", TRUE)

\* main, line 885: (PROCESSED_DIR / ticket_path.name).exists()
already_processed_never(name) == FALSE

already_processed(name) == name \in DOMAIN processed

\* main, lines 872-881: glob the queue, sort by mtime
MainStart ==
    /\ mainPc \in {"idle", "done"}
    /\ runs < MaxRuns
    /\ runs' = runs + 1
    /\ touched' = {}
    /\ picked' = QNames(queue)
    /\ todo' = [i \in 1..Len(queue) |-> queue[i].name]
    /\ mainPc' = IF queue = <<>> THEN "done" ELSE "run"
    /\ lastLog' = [kind |-> IF queue = <<>> THEN "EMPTY" ELSE "START", name |-> ""]
    /\ UNCHANGED <<vaultDir, transcripts, queue, processed, enq, fx, grown, lastEnq>>
    /\ UNCHANGED <<noteVars, graphVars, linkVars, retrVars, fileVars, moreVars>>

\* main, lines 883-889: one iteration of the loop over the tickets
MainStep(facts) ==
    /\ mainPc = "run"
    /\ todo # <<>>
    /\ LET name == Head(todo)
       IN  IF already_processed(name)
           THEN /\ queue' = QRemove(queue, name)
                /\ lastLog' = [kind |-> "SKIP", name |-> name]
                /\ UNCHANGED <<vault, processed, fx, grown>>
           ELSE LET o == process_ticket(name, facts)
                IN  /\ vault' = o.vault
                    /\ queue' = o.queue
                    /\ processed' = o.processed
                    /\ fx' = o.fx
                    /\ lastLog' = [kind |-> o.log, name |-> name]
                    /\ grown' = IF o.archived THEN [grown EXCEPT ![name] = 0] ELSE grown
    /\ todo' = Tail(todo)
    /\ UNCHANGED <<vaultDir, transcripts, enq, mainPc, picked, runs, touched, lastEnq>>
    /\ UNCHANGED <<prev, call, written, ncalls, graphVars, linkVars, retrVars, fileVars, moreVars>>

\* main, lines 891-896: the loop is over, sys.exit(0)
MainEnd ==
    /\ mainPc = "run"
    /\ todo = <<>>
    /\ mainPc' = "done"
    /\ UNCHANGED <<vaultDir, transcripts, queue, processed, enq, todo, picked, fx,
                   lastLog, runs, grown, touched, lastEnq>>
    /\ UNCHANGED <<noteVars, graphVars, linkVars, retrVars, fileVars, moreVars>>

InitQueue ==
    /\ vault = ("a" :> FullNote("d0", "old"))
    /\ NoteIdle
    /\ vaultDir \in BOOLEAN
    /\ transcripts = [s \in Sessions |-> NoTranscript]
    /\ queue \in {<<>>, <<[name |-> "s0", turn_count |-> 7]>>}
    /\ processed = <<>>
    /\ enq = EnqIdle
    /\ mainPc = "idle"
    /\ todo = <<>>
    /\ picked = {}
    /\ fx = NoFx
    /\ lastLog = NoLog
    /\ runs = 0
    /\ grown = [s \in Sessions |-> 0]
    /\ touched = {}
    /\ lastEnq = NoEnq
    /\ GraphIdle
    /\ LinksIdle
    /\ RetrieveIdle
    /\ FileIdle
    /\ MoreIdle

NextQueue ==
    \/ \E s \in Sessions, g \in GrowSteps : Grow(s, g)
    \/ \E s \in Sessions : LoseTranscript(s)
    \/ \E s \in Sessions : EnqueueCheck(s)
    \/ EnqueueWrite
    \/ MainStart
    \/ \E facts \in SeqsUpTo(FactSet, MaxFacts) : MainStep(facts)
    \/ MainEnd

SpecQueue == InitQueue /\ [][NextQueue]_vars

\* C2: a session whose ticket has been processed is enqueued again only if
\* its transcript has gained at least MIN_NEW_TURNS turns since then; for an
\* unchanged transcript (gained 0) every later enqueue call writes no ticket.
C2_ReenqueueOnlyAfterGrowth ==
    (lastEnq.wrote /\ lastEnq.wasProcessed) => lastEnq.grown >= MIN_NEW_TURNS

\* C3: every ticket main picked up is, when main returns, out of QUEUE_DIR and
\* in QUEUE_DIR/processed/ (tickets the enqueuer rewrote meanwhile aside).
C3_PickedTicketsArchived ==
    (mainPc = "done")
        => \A name \in picked \ touched :
              /\ name \notin QNames(queue)
              /\ name \in DOMAIN processed

\* C9: while processed/<name> exists, main removes the pending ticket <name>
\* from the queue without a note write, a source-chunk write, a graph-cache
\* patch or a vector upsert.
C9_SkipIsSilent ==
    [][ (mainPc = "run" /\ todo # <<>> /\ todo' = Tail(todo)
            /\ Head(todo) \in DOMAIN processed)
        => (/\ vault' = vault
            /\ fx' = fx
            /\ processed' = processed
            /\ Head(todo) \notin QNames(queue')) ]_vars

C9_Witness ==
    /\ lastLog.kind = "SKIP"
    /\ lastLog.name \notin QNames(queue)
    /\ lastLog.name \in DOMAIN processed
    /\ fx.notes > 0

-----------------------------------------------------------------------------
(* The graph cache: vault_embed.build_graph_index and                      *)
(* process_queue.update_graph_cache_incremental.                           *)
(* A wikilink is a line of the content: Ln("link", X) is `[[X]]` and       *)
(* Ln("linkd", X) is `[[X|display]]`.  The ids of the model are shorter    *)
(* than 60 characters and hold no blank.                                   *)

Range(q) == {q[i] : i \in 1..Len(q)}

RECURSIVE Dedup(_)
\* list(dict.fromkeys(...)): first occurrences, in order
Dedup(q) ==
    IF q = <<>> THEN <<>>
    ELSE LET r == Dedup(SubSeq(q, 1, Len(q) - 1))
             x == q[Len(q)]
         IN  IF x \in Range(r) THEN r ELSE Append(r, x)

RECURSIVE LinkTargets(_, _)
\* re.findall over the content, keeping the targets of the kinds the regex captures
LinkTargets(content, kinds) ==
    IF content = <<>> THEN <<>>
    ELSE LET h == Head(content)
         IN  (IF h.k \in kinds THEN <<h.v>> ELSE <<>>) \o LinkTargets(Tail(content), kinds)

\* ids of 60 characters or more, and ids that hold a blank
LongIds == {"long60"}

BlankIds == {"two words"}

\* len(l.strip()) < 60 and ' ' not in l.strip() and l.strip() in known_ids
Retained(x, known_ids) == x \notin LongIds /\ x \notin BlankIds /\ x \in known_ids

\* update_graph_cache_incremental lines 618-622: `[[X]]` and `[[X|display]]`
incremental_links(content, known_ids) ==
    Dedup(SelectSeq(LinkTargets(content, {"link", "linkd"}), LAMBDA x : Retained(x, known_ids)))

\* a plausible slip: the links are filtered and not deduplicated
build_links_all(content, known_ids) ==
    SelectSeq(LinkTargets(content, {"link"}), LAMBDA x : Retained(x, known_ids))

\* build_graph_index lines 185-189: the pattern \[\[([^\]]+)\]\] captures
\* `X|display` whole, which is no known id, so only `[[X]]` links are kept
build_links(content, known_ids) ==
    Dedup(SelectSeq(LinkTargets(content, {"link"}), LAMBDA x : Retained(x, known_ids)))

\* sorted(VAULT_NOTES_DIR.glob("*.md")): the order of the notes
IdOrder == <<"a", "b", "m", "n">>

SortedIds(S) == SelectSeq(IdOrder, LAMBDA x : x \in S)

RECURSIVE InvertInto(_, _, _)
\* for src, targets in outbound.items(): for t in targets:
\*     backlinks.setdefault(t, []).append(src)
InvertInto(backlinks, srcs, outbound) ==
    IF srcs = <<>> THEN backlinks
    ELSE LET src == Head(srcs)
             add(b, t) == (t :> Append(IF t \in DOMAIN b THEN b[t] ELSE <<>>, src)) @@ b
             step[i \in 0..Len(outbound[src])] ==
                 IF i = 0 THEN backlinks ELSE add(step[i - 1], outbound[src][i])
         IN  InvertInto(step[Len(outbound[src])], Tail(srcs), outbound)

build_graph_index(notes) ==
    LET known_ids == DOMAIN notes
        outbound  == [n \in known_ids |-> build_links(notes[n], known_ids)]
    IN  [outbound |-> outbound,
         backlinks |-> InvertInto(<<>>, SortedIds(known_ids), outbound)]

actual_id_of(note_id, relation) ==
    IF relation.kind \in {"UPDATES", "EXTENDS"} THEN relation.target ELSE note_id

\* a plausible slip: the backlinks of the old outbound links are not removed
update_graph_keepOld(cache, note_id, content, relation) ==
    LET actual_id == actual_id_of(note_id, relation)
        known_ids == DOMAIN cache.outbound \cup {actual_id}
        new_links == incremental_links(content, known_ids)
        added == [t \in DOMAIN cache.backlinks \cup Range(new_links) |->
                    LET cur == IF t \in DOMAIN cache.backlinks THEN cache.backlinks[t] ELSE <<>>
                    IN  IF t \in Range(new_links) /\ actual_id \notin Range(cur)
                        THEN Append(cur, actual_id) ELSE cur]
    IN  [outbound |-> (actual_id :> new_links) @@ cache.outbound, backlinks |-> added]

update_graph_cache_incremental(cache, note_id, content, relation) ==
    LET actual_id == actual_id_of(note_id, relation)
        known_ids == DOMAIN cache.outbound \cup {actual_id}
        new_links == incremental_links(content, known_ids)
        old_links == IF actual_id \in DOMAIN cache.outbound
                     THEN cache.outbound[actual_id] ELSE <<>>
        \* remove old backlinks from this note
        removed == [t \in DOMAIN cache.backlinks |->
                      IF t \in Range(old_links)
                      THEN SelectSeq(cache.backlinks[t], LAMBDA x : x # actual_id)
                      ELSE cache.backlinks[t]]
        \* add new backlinks
        added == [t \in DOMAIN removed \cup Range(new_links) |->
                    LET cur == IF t \in DOMAIN removed THEN removed[t] ELSE <<>>
                    IN  IF t \in Range(new_links) /\ actual_id \notin Range(cur)
                        THEN Append(cur, actual_id) ELSE cur]
    IN  [outbound |-> (actual_id :> new_links) @@ cache.outbound, backlinks |-> added]

\* contents with wikilinks
Linked(body, links) ==
    <<FM, Ln("description", body), FM, Blank>>
        \o [i \in 1..Len(links) |-> Ln(links[i][1], links[i][2])]

GraphVaults ==
    { ("a" :> Linked("A", <<<<"link", "b">>>>)) @@ ("b" :> Linked("B", <<<<"link", "a">>, <<"link", "b">>>>)),
      ("a" :> Linked("A", <<<<"link", "b">>, <<"linkd", "m">>, <<"link", "b">>>>))
          @@ ("b" :> Linked("B", <<>>)) @@ ("m" :> Linked("M", <<<<"link", "a">>, <<"link", "zz">>>>)) }

GraphFactContents ==
    { Linked("x", <<>>),
      Linked("x", <<<<"link", "a">>>>),
      Linked("x", <<<<"linkd", "b">>, <<"link", "a">>, <<"link", "b">>>>),
      <<Ln("text", "more"), Ln("link", "n"), Ln("link", "zz")>> }

GraphRelations ==
    {Rel("NEW", ""), Rel("UPDATES", "a"), Rel("EXTENDS", "b"), Rel("UPDATES", "n")}

InitGraph ==
    /\ vault \in GraphVaults
    /\ NoteIdle
    /\ QueueIdle
    /\ gcache = build_graph_index(vault)
    /\ npatch = 0
    /\ LinksIdle
    /\ RetrieveIdle
    /\ FileIdle
    /\ MoreIdle

\* process_ticket lines 821 and 828: write the note, then patch the cache
GraphFact(note_id, content, relation) ==
    /\ npatch < MaxPatches
    /\ vault' = write_note(vault, note_id, content, relation).vault
    /\ gcache' = update_graph_cache_incremental(gcache, note_id, content, relation)
    /\ npatch' = npatch + 1
    /\ UNCHANGED <<prev, call, written, ncalls, queueVars, linkVars, retrVars, fileVars, moreVars>>

NextGraph ==
    \E note_id \in {"a", "n"}, content \in GraphFactContents, relation \in GraphRelations :
        GraphFact(note_id, content, relation)

SpecGraph == InitGraph /\ [][NextGraph]_vars

GraphIds == {"a", "b", "m", "n", "zz"}

IsBacklink(id, t) ==
    t \in DOMAIN gcache.backlinks /\ id \in Range(gcache.backlinks[t])

IsOutbound(id, t) ==
    id \in DOMAIN gcache.outbound /\ t \in Range(gcache.outbound[id])

\* C5: from a cache produced by a full build, after any sequence of
\* incremental patches, id is in backlinks[t] if and only if t is in
\* outbound[id], for every pair (id, t).
C5_BacklinksDualOfOutbound ==
    \A id \in GraphIds, t \in GraphIds : IsBacklink(id, t) <=> IsOutbound(id, t)

\* two patches were applied, the second one dropped a link the first had added
C5_Witness ==
    /\ npatch = 2
    /\ "n" \in DOMAIN gcache.outbound
    /\ gcache.outbound["n"] = <<"a">>
    /\ "b" \in DOMAIN gcache.backlinks
    /\ "n" \notin Range(gcache.backlinks["b"])
    /\ IsBacklink("n", "a")
    /\ IsBacklink("a", "b")

-----------------------------------------------------------------------------
(* process_queue.fix_wikilinks_in_content.                                 *)
(* A content is a sequence of tokens: "[[" and "]]" are the two-character  *)
(* brackets, "|" the separator, " " a blank, the others are words ("a" is  *)
(* a note id, "T" a title written with capitals, "u" an unknown word).     *)
(* On such contents the pattern \[\[([^\]|]+)(?:\|([^\]]+))?\]\] matches   *)
(* token by token: group 1 is the longest run of tokens other than "]]"    *)
(* and "|" ("[[" included), group 2 the longest run of tokens other than   *)
(* "]]".                                                                   *)

LinkTokens == {"[[", "]]", "|", " ", "a", "T", "u"}

valid_ids == {<<"a">>}

title_to_id == (<<"t">> :> <<"a">>)

Lower(tok) == IF tok = "T" THEN "t" ELSE tok

LowerSeq(q) == [i \in 1..Len(q) |-> Lower(q[i])]

RECURSIVE Strip(_)
Strip(q) ==
    IF q = <<>> THEN q
    ELSE IF Head(q) = " " THEN Strip(Tail(q))
    ELSE IF q[Len(q)] = " " THEN Strip(SubSeq(q, 1, Len(q) - 1))
    ELSE q

\* the end of the longest run of tokens outside `stop` that starts at i
RECURSIVE RunEnd(_, _, _)
RunEnd(c, i, stop) ==
    IF i <= Len(c) /\ c[i] \notin stop THEN RunEnd(c, i + 1, stop) ELSE i - 1

NoMatch == [ok |-> FALSE, g1 |-> <<>>, g2 |-> <<>>, last |-> 0]

\* the match of the link pattern that starts at position i, if any
MatchAt(c, i) ==
    IF i > Len(c) \/ c[i] # "[[" THEN NoMatch
    ELSE LET e1 == RunEnd(c, i + 1, {"]]", "|"})
         IN  IF e1 < i + 1 \/ e1 + 1 > Len(c) THEN NoMatch
             ELSE IF c[e1 + 1] = "]]"
             THEN [ok |-> TRUE, g1 |-> SubSeq(c, i + 1, e1), g2 |-> <<>>, last |-> e1 + 1]
             ELSE \* c[e1 + 1] = "|"
                  LET e2 == RunEnd(c, e1 + 2, {"]]"})
                  IN  IF e2 < e1 + 2 \/ e2 + 1 > Len(c) THEN NoMatch
                      ELSE [ok |-> TRUE, g1 |-> SubSeq(c, i + 1, e1),
                            g2 |-> SubSeq(c, e1 + 2, e2), last |-> e2 + 1]

\* replace_link(m)
replace_link(c, i, m) ==
    LET target  == Strip(m.g1)
        display == m.g2
    IN  IF target \in valid_ids THEN SubSeq(c, i, m.last)
        ELSE IF LowerSeq(target) \in DOMAIN title_to_id
        THEN LET corrected == title_to_id[LowerSeq(target)]
             IN  IF display # <<>> THEN <<"[[">> \o corrected \o <<"|">> \o display \o <<"]]">>
                 ELSE <<"[[">> \o corrected \o <<"]]">>
        ELSE IF display # <<>> THEN display ELSE target

RECURSIVE SubFrom(_, _)
\* pattern.sub(replace_link, content): leftmost matches, not overlapping,
\* the replacement text is not scanned again
SubFrom(c, i) ==
    IF i > Len(c) THEN <<>>
    ELSE LET m == MatchAt(c, i)
         IN  IF m.ok THEN replace_link(c, i, m) \o SubFrom(c, m.last + 1)
             ELSE <<c[i]>> \o SubFrom(c, i + 1)

fix_wikilinks_in_content(content) == SubFrom(content, 1)

RECURSIVE LinksFrom(_, _)
\* the targets of the wikilinks a content holds (the same pattern, findall)
LinksFrom(c, i) ==
    IF i > Len(c) THEN {}
    ELSE LET m == MatchAt(c, i)
         IN  IF m.ok THEN {Strip(m.g1)} \cup LinksFrom(c, m.last + 1)
             ELSE LinksFrom(c, i + 1)

InitLinks ==
    /\ vault = <<>>
    /\ NoteIdle
    /\ QueueIdle
    /\ GraphIdle
    /\ RetrieveIdle
    /\ FileIdle
    /\ MoreIdle
    /\ linkIn \in SeqsUpTo(LinkTokens, MaxLinkLen)
    /\ linkOut = <<>>
    /\ linkDone = FALSE

FixLinks ==
    /\ ~linkDone
    /\ linkOut' = fix_wikilinks_in_content(linkIn)
    /\ linkDone' = TRUE
    /\ UNCHANGED <<linkIn, noteVars, queueVars, graphVars, retrVars, fileVars, moreVars>>

NextLinks == FixLinks

SpecLinks == InitLinks /\ [][NextLinks]_vars

TitleIds == {title_to_id[k] : k \in DOMAIN title_to_id}

\* C8: in the output of fix_wikilinks_in_content every remaining `[[X]]` or
\* `[[X|display]]` has X in the valid-id set or equal to an id the title map
\* assigns.
C8_NoDanglingLink ==
    linkDone => LinksFrom(linkOut, 1) \subseteq (valid_ids \cup TitleIds)

-----------------------------------------------------------------------------
(* The retrieval hook: vault_retrieve.main.                                *)
(* A result list is a sequence of note ids, best first.  A line of the     *)
(* block is a record [k, v]: k = "header" with the header text, "primary", *)
(* "source", "graph" (a connected note with a score) or "graph_unscored",  *)
(* with the note id in v.                                                  *)

MIN_QUERY_LENGTH == 20

RETRIEVE_TOP_K == 3

RRF_K == 60

RRF_FINAL_TOP_K == 3

RERANK_CANDIDATES == 10

MAX_SECONDARY == 5

RelevantHeader == Ln("header", "=== Relevant vault notes ===")

SourceHeader == Ln("header", "=== Source context ===")

GraphHeader == Ln("header", "=== Connected notes (graph) ===")

\* q[:n]
Take(q, n) == SubSeq(q, 1, Min({n, Len(q)}))

IndexOf(q, x) == IF x \in Range(q) THEN CHOOSE i \in 1..Len(q) : q[i] = x ELSE 0

Frac(n, d) == [n |-> n, d |-> d]

FracAdd(x, y) == Frac(x.n * y.d + y.n * x.d, x.d * y.d)

FracGreater(x, y) == x.n * y.d > y.n * x.d

\* 1 / (k + rank + 1) for the 0-based rank of position i, nothing when absent
RankScore(q, nid, k) ==
    IF nid \in Range(q) THEN Frac(1, k + IndexOf(q, nid)) ELSE Frac(0, 1)

RECURSIVE SortedDesc(_, _)
\* sorted(..., reverse=True): descending and stable
SortedDesc(q, score) ==
    IF q = <<>> THEN <<>>
    ELSE LET best == CHOOSE i \in 1..Len(q) :
                        /\ \A j \in 1..Len(q) : ~FracGreater(score[q[j]], score[q[i]])
                        /\ \A j \in 1..(i - 1) : FracGreater(score[q[i]], score[q[j]])
             rest == [j \in 1..(Len(q) - 1) |-> IF j < best THEN q[j] ELSE q[j + 1]]
         IN  <<q[best]>> \o SortedDesc(rest, score)

rrf_concat(vec, keyword_results, k, top_k) ==
    Take(vec \o SelectSeq(keyword_results, LAMBDA x : x \notin Range(vec)), top_k)

rrf_merge(vec, keyword_results, k, top_k) ==
    LET ids    == vec \o SelectSeq(keyword_results, LAMBDA x : x \notin Range(vec))
        scores == [nid \in Range(ids) |->
                      FracAdd(RankScore(vec, nid, k), RankScore(keyword_results, nid, k))]
    IN  Take(SortedDesc(ids, scores), top_k)

\* the entries Voyage returns map back to candidates; an index past the
\* list is dropped
Reranked(candidates, order) ==
    LET kept == SelectSeq(order, LAMBDA i : i <= Len(candidates))
    IN  [j \in 1..Len(kept) |-> candidates[kept[j]]]

PrimaryLines(p) == [i \in 1..Len(p) |-> Ln("primary", p[i])]

\* the orders the effective score (score, decay, confidence) can give
PermsOf(q) == {p \in [1..Len(q) -> Range(q)] : Range(p) = Range(q)}

StdinInputs ==
    {[kind |-> "empty", promptLen |-> 0], [kind |-> "garbage", promptLen |-> 0]}
    \cup {[kind |-> "object", promptLen |-> n] :
             n \in {0, MIN_QUERY_LENGTH - 1, MIN_QUERY_LENGTH}}

VectorAnswers == {<<>>, <<"a">>, <<"a", "b", "c", "d">>}

KeywordAnswers == {<<>>, <<"b">>, <<"d", "a">>}

RerankAnswers == {<<>>, <<3, 1, 2>>, <<4, 9, 1>>}

\* what collect_bfs_candidates, score_candidates_qdrant and pad_unscored
\* leave in `scored`: connected notes, the scored ones first
GraphAnswers ==
    {<<>>, <<Ln("graph", "e")>>, <<Ln("graph", "e"), Ln("graph_unscored", "f")>>}

\* sys.exit(0)
RExit(why) ==
    /\ rpc' = "exit"
    /\ exitStatus' = 0
    /\ rwhy' = why

flush_on_exception(out, built) == built

\* standard output once main's `except Exception` handler has run: the
\* handler logs and exits, it prints nothing
stdout_after_exception(out, built) == out

\* an exception reaches main's handler: log(f"RETRIEVE error: {e}"); sys.exit(0)
RRaise ==
    /\ retrLog' = retrLog + 1
    /\ stdout' = stdout_after_exception(stdout, lines)
    /\ RExit("error")

ReadStdin ==
    /\ rpc = "start"
    /\ IF stdin.kind = "garbage"
       THEN RExit("bad_stdin")
       ELSE rpc' = "guards" /\ UNCHANGED <<exitStatus, rwhy>>
    /\ UNCHANGED <<stdin, rcfg, vector_results, primary, lines, stdout, retrLog>>
    /\ UNCHANGED <<noteVars, queueVars, graphVars, linkVars, fileVars, moreVars>>

Guards ==
    /\ rpc = "guards"
    /\ \E qdrant \in BOOLEAN, key \in BOOLEAN, packages \in BOOLEAN :
          IF stdin.promptLen < MIN_QUERY_LENGTH THEN RExit("short")
          ELSE IF ~qdrant THEN RExit("no_store")
          ELSE IF ~key THEN RExit("no_key")
          ELSE IF ~packages THEN RExit("no_packages")
          ELSE rpc' = "connect" /\ UNCHANGED <<exitStatus, rwhy>>
    /\ UNCHANGED <<stdin, rcfg, vector_results, primary, lines, stdout, retrLog>>
    /\ UNCHANGED <<noteVars, queueVars, graphVars, linkVars, fileVars, moreVars>>

Connect ==
    /\ rpc = "connect"
    /\ \E outcome \in {"ok", "raise", "no_collection"} :
          CASE outcome = "raise" -> RRaise
            [] outcome = "no_collection" ->
                  RExit("no_collection") /\ UNCHANGED <<stdout, retrLog>>
            [] OTHER ->
                  rpc' = "embed" /\ UNCHANGED <<exitStatus, rwhy, stdout, retrLog>>
    /\ UNCHANGED <<stdin, rcfg, vector_results, primary, lines>>
    /\ UNCHANGED <<noteVars, queueVars, graphVars, linkVars, fileVars, moreVars>>

Embed ==
    /\ rpc = "embed"
    /\ \E fails \in BOOLEAN :
          IF fails THEN RRaise
          ELSE rpc' = "query" /\ UNCHANGED <<exitStatus, rwhy, stdout, retrLog>>
    /\ UNCHANGED <<stdin, rcfg, vector_results, primary, lines>>
    /\ UNCHANGED <<noteVars, queueVars, graphVars, linkVars, fileVars, moreVars>>

VectorQuery ==
    /\ rpc = "query"
    /\ \/ RRaise /\ UNCHANGED vector_results
       \/ /\ vector_results' \in VectorAnswers
          /\ rpc' = "bm25"
          /\ UNCHANGED <<exitStatus, rwhy, stdout, retrLog>>
    /\ UNCHANGED <<stdin, rcfg, primary, lines>>
    /\ UNCHANGED <<noteVars, queueVars, graphVars, linkVars, fileVars, moreVars>>

\* `if not primary: sys.exit(0)`
PrimaryOrExit(p, next) ==
    /\ primary' = p
    /\ IF p = <<>> THEN RExit("no_primary")
       ELSE rpc' = next /\ UNCHANGED <<exitStatus, rwhy>>

KeywordSearch ==
    /\ rpc = "bm25"
    /\ \E vaultExists \in BOOLEAN, fails \in BOOLEAN, keyword_results \in KeywordAnswers :
          IF rcfg.bm25 /\ vaultExists
          THEN IF fails THEN RRaise /\ UNCHANGED primary
               ELSE LET rrf_top == IF rcfg.rerank THEN RERANK_CANDIDATES ELSE RRF_FINAL_TOP_K
                        p == IF keyword_results # <<>> \/ vector_results # <<>>
                             THEN rrf_merge(vector_results, keyword_results, RRF_K, rrf_top)
                             ELSE <<>>
                    IN  PrimaryOrExit(p, "rerank") /\ UNCHANGED <<stdout, retrLog>>
          ELSE /\ PrimaryOrExit(Take(vector_results, RETRIEVE_TOP_K), "rerank")
               /\ UNCHANGED <<stdout, retrLog>>
    /\ UNCHANGED <<stdin, rcfg, vector_results, lines>>
    /\ UNCHANGED <<noteVars, queueVars, graphVars, linkVars, fileVars, moreVars>>

\* rerank_with_voyage: a failure is logged and falls back to the fused order
Rerank ==
    /\ rpc = "rerank"
    /\ IF rcfg.rerank /\ Len(primary) > RRF_FINAL_TOP_K
       THEN \E fails \in BOOLEAN, order \in RerankAnswers :
               IF fails
               THEN /\ retrLog' = retrLog + 1
                    /\ PrimaryOrExit(Take(primary, RRF_FINAL_TOP_K), "format")
               ELSE /\ UNCHANGED retrLog
                    /\ PrimaryOrExit(Reranked(primary, order), "format")
       ELSE /\ rpc' = "format"
            /\ UNCHANGED <<primary, retrLog, exitStatus, rwhy>>
    /\ UNCHANGED <<stdin, rcfg, vector_results, lines, stdout>>
    /\ UNCHANGED <<noteVars, queueVars, graphVars, linkVars, fileVars, moreVars>>

\* effective scores, sort, header and primary lines
Format ==
    /\ rpc = "format"
    /\ \E p \in PermsOf(primary) :
          /\ primary' = p
          /\ lines' = <<RelevantHeader>> \o PrimaryLines(p)
    /\ rpc' = "source"
    /\ UNCHANGED <<stdin, rcfg, vector_results, stdout, exitStatus, retrLog, rwhy>>
    /\ UNCHANGED <<noteVars, queueVars, graphVars, linkVars, fileVars, moreVars>>

\* load_source_chunk returns None when the chunk is missing, empty or unreadable
SourceChunk ==
    /\ rpc = "source"
    /\ \E found \in BOOLEAN :
          lines' = IF rcfg.source /\ found
                   THEN lines \o <<SourceHeader, Ln("source", primary[1])>>
                   ELSE lines
    /\ rpc' = "graph"
    /\ UNCHANGED <<stdin, rcfg, vector_results, primary, stdout, exitStatus, retrLog, rwhy>>
    /\ UNCHANGED <<noteVars, queueVars, graphVars, linkVars, fileVars, moreVars>>

GraphStep ==
    /\ rpc = "graph"
    /\ \/ RRaise /\ UNCHANGED lines
       \/ \E scored \in GraphAnswers :
             /\ lines' = IF scored # <<>> THEN lines \o <<GraphHeader>> \o scored ELSE lines
             /\ rpc' = "print"
             /\ UNCHANGED <<exitStatus, rwhy, stdout, retrLog>>
    /\ UNCHANGED <<stdin, rcfg, vector_results, primary>>
    /\ UNCHANGED <<noteVars, queueVars, graphVars, linkVars, fileVars, moreVars>>

\* print("\n".join(lines))
PrintBlock ==
    /\ rpc = "print"
    /\ stdout' = lines
    /\ rpc' = "writeback"
    /\ UNCHANGED <<stdin, rcfg, vector_results, primary, lines, exitStatus, retrLog, rwhy>>
    /\ UNCHANGED <<noteVars, queueVars, graphVars, linkVars, fileVars, moreVars>>

\* update_last_retrieved (failures swallowed), the RETRIEVE log line, end of main
Writeback ==
    /\ rpc = "writeback"
    /\ retrLog' = retrLog + 1
    /\ RExit("ok")
    /\ UNCHANGED <<stdin, rcfg, vector_results, primary, lines, stdout>>
    /\ UNCHANGED <<noteVars, queueVars, graphVars, linkVars, fileVars, moreVars>>

InitRetrieve ==
    /\ vault = <<>>
    /\ NoteIdle
    /\ QueueIdle
    /\ GraphIdle
    /\ LinksIdle
    /\ FileIdle
    /\ MoreIdle
    /\ stdin \in StdinInputs
    /\ rcfg \in [bm25 : BOOLEAN, rerank : BOOLEAN, source : BOOLEAN]
    /\ rpc = "start"
    /\ vector_results = <<>>
    /\ primary = <<>>
    /\ lines = <<>>
    /\ stdout = <<>>
    /\ exitStatus = -1
    /\ retrLog = 0
    /\ rwhy = ""

NextRetrieve ==
    \/ ReadStdin
    \/ Guards
    \/ Connect
    \/ Embed
    \/ VectorQuery
    \/ KeywordSearch
    \/ Rerank
    \/ Format
    \/ SourceChunk
    \/ GraphStep
    \/ PrintBlock
    \/ Writeback

SpecRetrieve == InitRetrieve /\ [][NextRetrieve]_vars

IsGraphPart(q) ==
    \/ q = <<>>
    \/ /\ Len(q) >= 2
       /\ Len(q) <= MAX_SECONDARY + 1
       /\ q[1] = GraphHeader
       /\ \A i \in 2..Len(q) : q[i].k \in {"graph", "graph_unscored"}

IsBlockTail(q) ==
    \/ IsGraphPart(q)
    \/ /\ Len(q) >= 2
       /\ q[1] = SourceHeader
       /\ q[2].k = "source"
       /\ IsGraphPart(SubSeq(q, 3, Len(q)))

\* a whole context block: the header, the primary lines, then the optional
\* source context and the optional graph block
IsCompleteBlock(out) ==
    /\ Len(out) >= 2
    /\ out[1] = RelevantHeader
    /\ \E np \in 1..RRF_FINAL_TOP_K :
          /\ np + 1 <= Len(out)
          /\ \A i \in 2..(np + 1) : out[i].k = "primary"
          /\ IsBlockTail(SubSeq(out, np + 2, Len(out)))

-----------------------------------------------------------------------------
(* One note file, a.md, written by the extraction worker                   *)
(* (write_file_atomic, step by step) and by the reflector's stale marking  *)
(* (vault_reflect.main), while another process reads it.                   *)

\* the contents the worker passes to write_file_atomic for a.md when the
\* file holds `cur`: the superseded_by mark, an UPDATES, an EXTENDS
WorkerContents(cur) ==
    LET v == ("a" :> cur)
    IN  ({_add_superseded_by(Res(v, <<>>), "a", "n").vault["a"]} \ {cur})
        \cup {write_note(v, "n", c, Rel(k, "a")).vault["a"] :
                 c \in FactContents, k \in {"UPDATES", "EXTENDS"}}

\* "stale: true" in content
MentionsStale(content) ==
    \E i \in 1..Len(content) : content[i] = Ln("stale", "true")

\* the positions of "---\n\n": a `---` line followed by an empty line that is
\* not the last one
StalePositions(content) ==
    {i \in 1..(Len(content) - 2) : content[i] = FM /\ content[i + 1] = Blank}

\* content.replace("---\n\n", "stale: true\nstale_since: <today>\n---\n\n", 1)
mark_stale(content) ==
    IF StalePositions(content) = {} THEN content
    ELSE LET i == Min(StalePositions(content))
         IN  SubSeq(content, 1, i - 1)
                 \o <<Ln("stale", "true"), Ln("stale_since", "today")>>
                 \o SubSeq(content, i, Len(content))

\* the `except Exception` handler of write_file_atomic:
\*     os.close(fd) if not os.get_inheritable(fd) else None
\*     os.unlink(tmp_path)
\* os.get_inheritable raises OSError on a descriptor that is already closed,
\* and then the unlink is not reached
except_cleanup(fd_open, tmp) == IF fd_open THEN NoTmp ELSE tmp

\* tempfile.mkstemp(dir=path.parent, suffix=".tmp"): an empty temp file
WriterBegin ==
    /\ writerPc \in {"idle", "raised"}
    /\ nfw < MaxFileWrites
    /\ \E c \in WorkerContents(noteFile) :
          /\ writerBuf' = c
          /\ versions' = versions \cup {c}
    /\ tmpFile' = [exists |-> TRUE, content |-> <<>>]
    /\ writerPc' = "created"
    /\ nfw' = nfw + 1
    /\ UNCHANGED <<noteFile, reflectPc, reflectBuf, seen>>
    /\ UNCHANGED <<noteVars, queueVars, graphVars, linkVars, retrVars, moreVars>>

\* os.write(fd, ...); os.close(fd) -- or os.write raises, with the descriptor
\* still open
WriterWrite ==
    /\ writerPc = "created"
    /\ \E fails \in BOOLEAN :
          IF fails
          THEN tmpFile' = except_cleanup(TRUE, tmpFile) /\ writerPc' = "raised"
          ELSE tmpFile' = [exists |-> TRUE, content |-> writerBuf] /\ writerPc' = "written"
    /\ UNCHANGED <<noteFile, writerBuf, reflectPc, reflectBuf, seen, versions, nfw>>
    /\ UNCHANGED <<noteVars, queueVars, graphVars, linkVars, retrVars, moreVars>>

\* os.rename(tmp_path, path): the path now names the temp file's bytes; a
\* descriptor opened on the old file keeps the old, now unnamed, file -- or
\* os.rename raises, after os.close(fd)
WriterRename ==
    /\ writerPc = "written"
    /\ \E fails \in BOOLEAN :
          IF fails
          THEN /\ tmpFile' = except_cleanup(FALSE, tmpFile)
               /\ writerPc' = "raised"
               /\ UNCHANGED <<noteFile, reflectPc>>
          ELSE /\ noteFile' = tmpFile.content
               /\ reflectPc' = IF reflectPc = "opened" THEN "opened_unlinked" ELSE reflectPc
               /\ tmpFile' = NoTmp
               /\ writerPc' = "idle"
    /\ UNCHANGED <<writerBuf, reflectBuf, seen, versions, nfw>>
    /\ UNCHANGED <<noteVars, queueVars, graphVars, linkVars, retrVars, moreVars>>

\* content = note_path.read_text(); if "stale: true" not in content: replace
ReflectRead ==
    /\ reflectPc = "idle"
    /\ nfw < MaxFileWrites
    /\ ~MentionsStale(noteFile)
    /\ reflectBuf' = mark_stale(noteFile)
    /\ versions' = versions \cup {mark_stale(noteFile)}
    /\ reflectPc' = "marked"
    /\ nfw' = nfw + 1
    /\ UNCHANGED <<noteFile, tmpFile, writerPc, writerBuf, seen>>
    /\ UNCHANGED <<noteVars, queueVars, graphVars, linkVars, retrVars, moreVars>>

\* note_path.write_text(content): open(path, "w") truncates the file in place
ReflectOpen ==
    /\ reflectPc = "marked"
    /\ noteFile' = <<>>
    /\ reflectPc' = "opened"
    /\ UNCHANGED <<tmpFile, writerPc, writerBuf, reflectBuf, seen, versions, nfw>>
    /\ UNCHANGED <<noteVars, queueVars, graphVars, linkVars, retrVars, moreVars>>

\* ... then writes the content and closes
ReflectWrite ==
    /\ reflectPc \in {"opened", "opened_unlinked"}
    /\ noteFile' = IF reflectPc = "opened" THEN reflectBuf ELSE noteFile
    /\ reflectPc' = "idle"
    /\ UNCHANGED <<tmpFile, writerPc, writerBuf, reflectBuf, seen, versions, nfw>>
    /\ UNCHANGED <<noteVars, queueVars, graphVars, linkVars, retrVars, moreVars>>

\* a concurrent reader (retrieval, indexer, BM25 live scan): read_text
ReadNote ==
    /\ seen' = [read |-> TRUE, content |-> noteFile]
    /\ UNCHANGED <<noteFile, tmpFile, writerPc, writerBuf, reflectPc, reflectBuf,
                   versions, nfw>>
    /\ UNCHANGED <<noteVars, queueVars, graphVars, linkVars, retrVars, moreVars>>

InitFile ==
    /\ vault = <<>>
    /\ NoteIdle
    /\ QueueIdle
    /\ GraphIdle
    /\ LinksIdle
    /\ RetrieveIdle
    /\ noteFile \in {FullNote("d0", "old"), PlainText("w")}
    /\ tmpFile = NoTmp
    /\ writerPc = "idle"
    /\ writerBuf = <<>>
    /\ reflectPc = "idle"
    /\ reflectBuf = <<>>
    /\ seen = NoRead
    /\ versions = {noteFile}
    /\ nfw = 0
    /\ MoreIdle

NextFile ==
    \/ WriterBegin
    \/ WriterWrite
    \/ WriterRename
    \/ ReflectRead
    \/ ReflectOpen
    \/ ReflectWrite
    \/ ReadNote

SpecFile == InitFile /\ [][NextFile]_vars

\* C10: every mutation of a note file goes through a temp file plus rename,
\* so a concurrent reader gets the complete old or the complete new content
\* of the note, never a truncated or mixed file.
C10_ReaderSeesWholeVersion ==
    seen.read => seen.content \in versions

\* C11: when write_file_atomic fails (writing the temp file or renaming it),
\* it raises, the destination keeps its content and no temp file is left.
C11_FailureLeavesNoTemp ==
    [][writerPc' = "raised" /\ writerPc # "raised"
          => noteFile' = noteFile /\ ~tmpFile'.exists]_vars

-----------------------------------------------------------------------------
(* process_ticket, one fact at a time, with the semantic dedup.            *)
(* The condition of the embeddings client and the vector store is          *)
(* [status, hit]: status is "ok" or what is wrong, hit is what the nearest *)
(* point above DEDUP_THRESHOLD is ("none": no point, "": a point without   *)
(* note_id in its payload, else the note id).                              *)

StoreStatuses ==
    {"ok", "no_packages", "no_key", "no_store_dir", "no_collection", "client_error",
     "embed_error", "query_error"}

StoreHits == {"none", "", "a", "b"}

\* get_embed_clients() returns (None, None) or the two clients
get_embed_clients(status) ==
    status \notin {"no_packages", "no_key", "no_store_dir", "no_collection", "client_error"}

DupAnswer(is_dup, target_id) == [is_dup |-> is_dup, target_id |-> target_id]

dup_ignoring_errors(store) == DupAnswer(store.hit # "none", store.hit)

check_semantic_dup(store) ==
    IF ~get_embed_clients(store.status) THEN DupAnswer(FALSE, "")
    ELSE IF store.status \in {"embed_error", "query_error"} THEN DupAnswer(FALSE, "")
    ELSE IF store.hit = "none" THEN DupAnswer(FALSE, "")
    ELSE DupAnswer(TRUE, store.hit)

dedup_asked_always(relation) == TRUE

\* process_ticket line 815: if relation == "NEW"
dedup_asked(relation) == relation.kind = "NEW"

\* one iteration of the loop of process_ticket over a fact of the validated list
ProcessFact ==
    /\ ncalls < MaxDedupFacts
    /\ \E note_id \in NoteIds, content \in FactContents, relation \in Relations,
          status \in StoreStatuses, hit \in StoreHits, fails \in BOOLEAN :
          LET asked  == dedup_asked(relation)
              answer == IF asked THEN check_semantic_dup([status |-> status, hit |-> hit])
                        ELSE DupAnswer(FALSE, "")
              f      == Fact(note_id, content, relation,
                             IF answer.is_dup THEN answer.target_id ELSE "", fails)
              rel    == IF f.dup # "" THEN Rel("EXTENDS", f.dup) ELSE relation
          IN  /\ vault' = apply_fact([vault |-> vault, fx |-> NoFx], f).vault
              /\ prev' = vault
              /\ call' = [note_id |-> note_id, content |-> content, relation |-> rel]
              /\ written' = IF fails THEN <<>>
                            ELSE write_note(vault, note_id, content, rel).writes
              /\ lastFact' = [note_id |-> note_id, content |-> content,
                              relation |-> relation,
                              store |-> IF asked THEN status ELSE "",
                              hit |-> IF asked THEN hit ELSE "none",
                              nearest |-> IF status = "ok" THEN hit ELSE "none",
                              answer |-> answer, fails |-> fails]
    /\ ncalls' = ncalls + 1
    /\ UNCHANGED factRest

InitFact ==
    /\ vault \in InitVaults
    /\ NoteIdle
    /\ FactRestIdle
    /\ lastFact = NoFact

NextFact == ProcessFact

SpecFact == InitFact /\ [][NextFact]_vars

StoreFailed == lastFact.store \notin {"", "ok"}

\* C12: when the embeddings client or the vector store is unavailable or
\* raises, check_semantic_dup answers (False, "") and the fact's note is
\* written with the relation the fact carried.
C12_StoreFailureNeverBlocksWrite ==
    (StoreFailed /\ ~lastFact.fails) =>
        /\ lastFact.answer = DupAnswer(FALSE, "")
        /\ vault = write_note(prev, lastFact.note_id, lastFact.content,
                              lastFact.relation).vault
        /\ call.relation = lastFact.relation
        /\ written # <<>>

\* a NEW fact whose content is close to note a, handled while the vector
\* query raises: n.md is written as a new note
C12_Witness ==
    /\ lastFact.store = "query_error"
    /\ lastFact.hit = "a"
    /\ lastFact.relation = Rel("NEW", "")
    /\ lastFact.note_id = "n"
    /\ ~lastFact.fails
    /\ "n" \in DOMAIN vault
    /\ "n" \notin DOMAIN prev

-----------------------------------------------------------------------------
(* The indexes and the files they are built from.  A note id is the stem   *)
(* of its file name; "_d", ".h" and "._r" are the stems of _d.md, .h.md    *)
(* and ._r.md.  Path.glob("*.md") yields hidden files too.                 *)

FileStems == {"a", "b", "_d", ".h", "._r"}

\* name.startswith(".")
StartsWithDot(n) == n \in {".h", "._r"}

\* name.startswith("_")
StartsWithUnderscore(n) == n \in {"_d"}

\* name.startswith("._")
StartsWithDotUnderscore(n) == n \in {"._r"}

Restrict(f, S) == [x \in (DOMAIN f \cap S) |-> f[x]]

\* get_notes_to_embed(note_ids): the ids of the notes parsed; note_ids = {}
\* stands for None (every note of the vault)
get_notes_to_embed(v, note_ids) ==
    IF note_ids # {} THEN note_ids \cap DOMAIN v
    ELSE {p \in DOMAIN v : ~(StartsWithDot(p) \/ StartsWithUnderscore(p))}

\* payload of a point written by upsert_notes: last_retrieved := created
NewPayload == [last_retrieved |-> "created"]

\* qd.upsert of the notes: the other points stay
Upserted(pts, notes) ==
    [id \in (DOMAIN pts \cup notes) |-> IF id \in notes THEN NewPayload ELSE pts[id]]

\* vault_embed.py with no argument: upsert every note, then write the BM25
\* index and the graph cache
FullRebuild ==
    /\ LET notes == get_notes_to_embed(vault, {})
       IN  /\ points' = Upserted(points, notes)
           /\ bm25' = notes
           /\ gcache' = build_graph_index(Restrict(vault, notes))
    /\ UNCHANGED <<npatch, indexVars>>
    /\ UNCHANGED indexRest

\* vault_embed.py --note NOTE_ID (what upsert_note_async launches)
SingleUpsert ==
    /\ \E nid \in FileStems :
          points' = Upserted(points, get_notes_to_embed(vault, {nid}))
    /\ UNCHANGED <<bm25, indexVars>>
    /\ UNCHANGED <<graphVars, indexRest>>

\* process_ticket, line 782
ComputeValidIds ==
    /\ validIds' = {f \in DOMAIN vault : ~StartsWithDotUnderscore(f)}
    /\ UNCHANGED <<liveIds, storeVars>>
    /\ UNCHANGED <<graphVars, indexRest>>

\* _build_live_index of the retrieval hook
LiveScan ==
    /\ liveIds' = {p \in DOMAIN vault : ~(StartsWithDot(p) \/ StartsWithUnderscore(p))}
    /\ UNCHANGED <<validIds, storeVars>>
    /\ UNCHANGED <<graphVars, indexRest>>

IndexVaults ==
    {[x \in ({"a", "b"} \cup H) |-> FullNote("d0", "old")] : H \in SUBSET {"_d", ".h", "._r"}}

InitIndex ==
    /\ vault \in IndexVaults
    /\ NoteIdle
    /\ GraphIdle
    /\ IndexRestIdle
    /\ StoreIdle
    /\ IndexIdle

NextIndex ==
    \/ FullRebuild
    \/ SingleUpsert
    \/ ComputeValidIds
    \/ LiveScan

SpecIndex == InitIndex /\ [][NextIndex]_vars

IsHidden(n) == StartsWithDot(n) \/ StartsWithUnderscore(n)

\* C13: no file whose name starts with `.` or `_` has an entry in the vector
\* store, the BM25 index (persistent or live), the graph cache or the set of
\* valid wikilink targets.
C13_HiddenFilesInvisible ==
    \A n \in DOMAIN points \cup bm25 \cup liveIds \cup validIds
             \cup DOMAIN gcache.outbound \cup DOMAIN gcache.backlinks :
        ~IsHidden(n)

-----------------------------------------------------------------------------
(* The reflector: archive_expired_notes.                                   *)

ArchiveIds == {"a", "b", "c"}

\* archive_expired_notes(expired): renameFails are the notes whose
\* note_path.rename(dest) raises, deleteFails says that the Qdrant cleanup
\* raises
archive_expired_notes(v, arch, pts, expired, renameFails, deleteFails) ==
    LET moved == {n \in expired : n \in DOMAIN v /\ n \notin renameFails}
    IN  [vault   |-> Restrict(v, DOMAIN v \ moved),
         archive |-> Restrict(v, moved) @@ arch,
         points  |-> IF moved # {} /\ ~deleteFails
                     THEN Restrict(pts, DOMAIN pts \ expired)
                     ELSE pts,
         archived |-> Cardinality(moved)]

ArchiveExpired ==
    /\ lastArchive.runs < MaxArchiveRuns
    /\ \E expired \in SUBSET ArchiveIds, deleteFails \in BOOLEAN :
       \E renameFails \in SUBSET (expired \cap DOMAIN vault) :
          LET r == archive_expired_notes(vault, archive, points, expired,
                                         renameFails, deleteFails)
          IN  /\ vault' = r.vault
              /\ archive' = r.archive
              /\ points' = r.points
              /\ lastArchive' = [runs |-> lastArchive.runs + 1, expired |-> expired,
                                 vault |-> vault, points |-> points,
                                 renameFailed |-> renameFails,
                                 deleteFailed |-> deleteFails]
    /\ UNCHANGED <<prev, call, written, ncalls, bm25, meta, ttl, expiredOut, others,
                   lastReflect>>
    /\ UNCHANGED <<queueVars, graphVars, linkVars, retrVars, fileVars, factVars, indexVars,
                   blockVars, tailVars>>

InitArchive ==
    /\ vault \in {[x \in S |-> FullNote("d0", "old")] : S \in {{"a", "b"}, {"a", "b", "c"}}}
    /\ NoteIdle
    /\ GraphIdle
    /\ QueueIdle /\ LinksIdle /\ RetrieveIdle /\ FileIdle /\ FactIdle /\ IndexIdle
    /\ BlockIdle /\ TailIdle
    /\ points \in {[x \in S |-> NewPayload] : S \in SUBSET ArchiveIds}
    /\ bm25 = {}
    /\ archive = <<>>
    /\ lastArchive = NoArchive
    /\ meta = <<>>
    /\ ttl = <<>>
    /\ expiredOut = NoExpired
    /\ others = 0
    /\ lastReflect = NoReflect

NextArchive == ArchiveExpired

SpecArchive == InitArchive /\ [][NextArchive]_vars

\* C14: after archive_expired_notes every expired note has its file in the
\* archive and no vector point (when neither its rename nor the store cleanup
\* failed), and a point is deleted only for a note whose file was moved: a
\* note whose file is still in the vault keeps its point.
C14_PointDeletedOnlyWithFile ==
    lastArchive.runs > 0 =>
        /\ \A n \in lastArchive.expired \cap DOMAIN lastArchive.vault :
              (n \notin lastArchive.renameFailed /\ ~lastArchive.deleteFailed) =>
                  /\ n \notin DOMAIN vault
                  /\ n \in DOMAIN archive
                  /\ n \notin DOMAIN points
        /\ \A n \in DOMAIN lastArchive.points :
              n \in DOMAIN vault => n \in DOMAIN points

-----------------------------------------------------------------------------
(* The reflector: find_expired_notes.                                      *)
(* Dates are day numbers (ISO dates compare as their days do); a field of  *)
(* the frontmatter is [kind, day] with kind "none" (absent), "bad" (not a  *)
(* date) or "date".                                                        *)

Today == 4

NoDate == [kind |-> "none", day |-> 0]

BadDate == [kind |-> "bad", day |-> 0]

Date(d) == [kind |-> "date", day |-> d]

NoteTypes == {"context", "result", "decision"}

Meta(forget_after, type, created) ==
    [forget_after |-> forget_after, type |-> type, created |-> created]

NoteMetas ==
    {Meta(fa, ty, cr) : fa \in {NoDate} \cup {Date(d) : d \in 0..MaxDay},
                        ty \in {"context", "decision"},
                        cr \in {NoDate, BadDate} \cup {Date(d) : d \in 0..MaxDay}}

TtlTables ==
    {<<>>, ("context" :> 2), ("context" :> 3) @@ ("result" :> 1)}

expired_by_ttl_always(note, table) ==
    /\ note.type \in DOMAIN table
    /\ note.created.kind = "date"
    /\ Today >= note.created.day + table[note.type]

\* the body of the loop of find_expired_notes for one note
is_expired(note, table) ==
    IF note.forget_after.kind # "none" /\ note.forget_after.day <= Today THEN TRUE
    ELSE IF note.forget_after.kind = "none" /\ table # <<>>
    THEN /\ note.type \in DOMAIN table
         /\ table[note.type] # 0
         /\ note.created.kind # "none"
         /\ note.created.kind = "date"
         /\ Today >= note.created.day + table[note.type]
    ELSE FALSE

find_expired_notes(notes, table) == {n \in DOMAIN notes : is_expired(notes[n], table)}

FindExpired ==
    /\ ~expiredOut.done
    /\ expiredOut' = [done |-> TRUE, ids |-> find_expired_notes(meta, ttl)]
    /\ UNCHANGED <<archive, lastArchive, meta, ttl, others, lastReflect>>
    /\ UNCHANGED <<noteVars, queueVars, graphVars, linkVars, retrVars, fileVars, factVars,
                   storeVars, indexVars, blockVars, tailVars>>

InitExpiry ==
    /\ vault = <<>>
    /\ NoteIdle
    /\ GraphIdle
    /\ QueueIdle /\ LinksIdle /\ RetrieveIdle /\ FileIdle /\ FactIdle
    /\ StoreIdle /\ IndexIdle /\ BlockIdle /\ TailIdle
    /\ archive = <<>>
    /\ lastArchive = NoArchive
    /\ meta \in [{"a"} -> NoteMetas]
    /\ ttl \in TtlTables
    /\ expiredOut = NoExpired
    /\ others = 0
    /\ lastReflect = NoReflect

NextExpiry == FindExpired

SpecExpiry == InitExpiry /\ [][NextExpiry]_vars

HasForgetAfter(n) == meta[n].forget_after.kind = "date"

-----------------------------------------------------------------------------
(* The reflector: main.                                                    *)
(* The vault is the notes a and b, whose frontmatter decides whether they  *)
(* are expired, and `others` further notes that are neither expired nor    *)
(* stale: main touches only the files of expired and stale notes.          *)

REFLECT_MIN_NOTES == 30

ReflectOut(v, arch, pts) == [vault |-> v, archive |-> arch, points |-> pts]

\* the stale marking loop of main: writeFails are the notes whose read_text or
\* write_text raises (swallowed by `except Exception: pass`)
mark_stale_notes(v, stale, writeFails) ==
    [n \in DOMAIN v |->
        IF n \in stale /\ n \notin writeFails /\ ~MentionsStale(v[n])
        THEN mark_stale(v[n])
        ELSE v[n]]

\* the `if apply_mode:` block of main
apply_actions(v, arch, pts, expired, stale, renameFails, deleteFails, writeFails) ==
    LET r == IF expired # {}
             THEN archive_expired_notes(v, arch, pts, expired, renameFails, deleteFails)
             ELSE [vault |-> v, archive |-> arch, points |-> pts, archived |-> 0]
    IN  ReflectOut(mark_stale_notes(r.vault, stale, writeFails), r.archive, r.points)

reflect_main_any_size(v, arch, pts, total, apply_mode, expired, stale, fails) ==
    IF apply_mode
    THEN apply_actions(v, arch, pts, expired, stale, fails.rename, fails.delete, fails.write)
    ELSE ReflectOut(v, arch, pts)

\* main: total is len(notes) after the scan, fails says which file and store
\* operations raise
reflect_main(v, arch, pts, total, apply_mode, expired, stale, fails) ==
    IF total < REFLECT_MIN_NOTES THEN ReflectOut(v, arch, pts)
    ELSE IF apply_mode
    THEN apply_actions(v, arch, pts, expired, stale, fails.rename, fails.delete, fails.write)
    ELSE ReflectOut(v, arch, pts)

\* one run of vault_reflect.py; `stale` is what find_stale_notes returns (it
\* only reads the vector store), the flags come from sys.argv
ReflectMain ==
    /\ lastReflect.runs < MaxReflectRuns
    /\ \E apply_mode \in BOOLEAN, json_mode \in BOOLEAN, deleteFails \in BOOLEAN,
          stale \in SUBSET DOMAIN vault :
       LET total == Cardinality(DOMAIN vault) + others
           expired == find_expired_notes(Restrict(meta, DOMAIN vault), ttl)
       IN  \E renameFails \in SUBSET expired, writeFails \in SUBSET stale :
              LET r == reflect_main(vault, archive, points, total, apply_mode, expired,
                                    stale, [rename |-> renameFails,
                                            delete |-> deleteFails,
                                            write |-> writeFails])
              IN  /\ vault' = r.vault
                  /\ archive' = r.archive
                  /\ points' = r.points
                  /\ lastReflect' = [runs |-> lastReflect.runs + 1, apply |-> apply_mode,
                                     json |-> json_mode, total |-> total,
                                     expired |-> expired, stale |-> stale]
    /\ UNCHANGED <<prev, call, written, ncalls, bm25, lastArchive, meta, ttl, expiredOut,
                   others>>
    /\ UNCHANGED <<queueVars, graphVars, linkVars, retrVars, fileVars, factVars, indexVars,
                   blockVars, tailVars>>

ReflectMetas ==
    {Meta(NoDate, "decision", Date(0)), Meta(Date(Today), "decision", Date(0))}

InitReflect ==
    /\ vault = [x \in {"a", "b"} |-> FullNote("d0", "old")]
    /\ NoteIdle
    /\ GraphIdle
    /\ QueueIdle /\ LinksIdle /\ RetrieveIdle /\ FileIdle /\ FactIdle /\ IndexIdle
    /\ BlockIdle /\ TailIdle
    /\ points \in {[x \in S |-> NewPayload] : S \in {{"a", "b"}, {"a"}}}
    /\ bm25 = {}
    /\ archive = <<>>
    /\ lastArchive = NoArchive
    /\ meta \in [{"a", "b"} -> ReflectMetas]
    /\ ttl = <<>>
    /\ expiredOut = NoExpired
    /\ others \in 0..MaxOthers
    /\ lastReflect = NoReflect

NextReflect == ReflectMain

SpecReflect == InitReflect /\ [][NextReflect]_vars

\* C16: the reflector moves, rewrites or deletes a note file or a vector
\* point only when it runs with --apply on a vault of at least
\* REFLECT_MIN_NOTES indexable notes; every other run leaves the vault
\* directory (the archive directory in it included) and the vector store
\* unchanged.
C16_MutatesOnlyWithApply ==
    [][(vault' # vault \/ archive' # archive \/ points' # points)
          => (lastReflect'.apply /\ lastReflect'.total >= REFLECT_MIN_NOTES)]_vars

\* a report-only run on a large enough vault that found expired and stale
\* notes: the files are where they were
C16_Witness ==
    /\ lastReflect.runs > 0
    /\ lastReflect.expired # {}
    /\ lastReflect.stale # {}
    /\ ~lastReflect.apply
    /\ lastReflect.total >= REFLECT_MIN_NOTES
    /\ lastReflect.expired \subseteq DOMAIN vault
    /\ \A n \in lastReflect.stale : ~MentionsStale(vault[n])

-----------------------------------------------------------------------------
(* Retrieval: the graph traversal of main (collect_bfs_candidates,         *)
(* score_candidates_qdrant, pad_unscored), the graph block it prints and   *)
(* update_last_retrieved.                                                  *)

MAX_BACKLINKS_PER_NOTE == 3

\* "score": None
NoScore == 0

BlockOrder == <<"a", "b", "c", "d", "e", "f", "g", "h">>

BlockIds == Range(BlockOrder)

Entry(nid, score) == [note_id |-> nid, score |-> score]

EntryIds(entries) == [i \in 1..Len(entries) |-> entries[i].note_id]

\* d.get(k, [])
GetList(dict, k) == IF k \in DOMAIN dict THEN dict[k] ELSE <<>>

RECURSIVE Flatten(_)
Flatten(lists) ==
    IF lists = <<>> THEN <<>> ELSE Head(lists) \o Flatten(Tail(lists))

MaxLenOf(lists) ==
    IF lists = <<>> THEN 0
    ELSE CHOOSE m \in {Len(lists[j]) : j \in 1..Len(lists)} :
            \A j \in 1..Len(lists) : Len(lists[j]) <= m

\* for i in range(max(len(x) for x in lists)): for links in lists:
\*     if i < len(links): links[i]
RoundRobin(lists) ==
    Flatten([i \in 1..MaxLenOf(lists) |->
                Flatten([j \in 1..Len(lists) |->
                            IF i <= Len(lists[j]) THEN <<lists[j][i]>> ELSE <<>>])])

\* add(nid) of collect_bfs_candidates, on [seen, candidates, frontier]
add(st, nid, depth1) ==
    IF nid \in st.seen THEN st
    ELSE [seen |-> st.seen \cup {nid},
          candidates |-> Append(st.candidates, nid),
          frontier |-> IF depth1 THEN Append(st.frontier, nid) ELSE st.frontier]

RECURSIVE AddEach(_, _, _)
AddEach(st, q, depth1) ==
    IF q = <<>> THEN st ELSE AddEach(add(st, Head(q), depth1), Tail(q), depth1)

collect_bfs_candidates(pids, outbound, backlinks) ==
    LET s0 == [seen |-> Range(pids), candidates |-> <<>>, frontier |-> <<>>]
        back == Flatten([i \in 1..Len(pids) |->
                            Take(GetList(backlinks, pids[i]), MAX_BACKLINKS_PER_NOTE)])
        s1 == AddEach(s0, back, FALSE)
        depth1_lists == [i \in 1..Len(pids) |-> GetList(outbound, pids[i])]
        s2 == AddEach(s1, RoundRobin(depth1_lists), TRUE)
        depth2_lists == [i \in 1..Len(s2.frontier) |-> GetList(outbound, s2.frontier[i])]
        s3 == AddEach(s2, RoundRobin(depth2_lists), FALSE)
    IN  s3.candidates

\* the similarity of an indexed note to the query: its place in `order`,
\* larger is closer; always above NoScore
ScoreOf(order, nid) == Len(order) + 1 - IndexOf(order, nid)

score_unlimited(cands, pts, order, queryFails) ==
    LET hits == SelectSeq(order, LAMBDA x : x \in Range(cands) /\ x \in DOMAIN pts)
    IN  [i \in 1..Len(hits) |-> Entry(hits[i], ScoreOf(order, hits[i]))]

score_in_candidate_order(cands, pts, order, queryFails) ==
    LET hits == Take(SelectSeq(cands, LAMBDA x : x \in DOMAIN pts), MAX_SECONDARY)
    IN  [i \in 1..Len(hits) |-> Entry(hits[i], ScoreOf(order, hits[i]))]

\* score_candidates_qdrant: the points whose note_id is a candidate, closest
\* first, at most MAX_SECONDARY; [] when the query raises
score_candidates_qdrant(cands, pts, order, queryFails) ==
    IF cands = <<>> \/ queryFails THEN <<>>
    ELSE LET hits == Take(SelectSeq(order, LAMBDA x : x \in Range(cands) /\ x \in DOMAIN pts),
                          MAX_SECONDARY)
         IN  [i \in 1..Len(hits) |-> Entry(hits[i], ScoreOf(order, hits[i]))]

RECURSIVE PadLoop(_, _, _, _, _)
\* the loop of pad_unscored
PadLoop(result, cands, scored_ids, slots, v) ==
    IF cands = <<>> THEN result
    ELSE LET nid == Head(cands)
         IN  IF nid \in scored_ids \/ Len(result) >= slots THEN result
             ELSE IF nid \notin DOMAIN v
             THEN PadLoop(result, Tail(cands), scored_ids, slots, v)
             ELSE PadLoop(Append(result, Entry(nid, NoScore)), Tail(cands),
                          scored_ids, slots, v)

pad_unscored(scored_ids, cands, slots, v) == PadLoop(<<>>, cands, scored_ids, slots, v)

\* main, lines 631-635
scored_and_padded(cands, pts, order, queryFails, v) ==
    LET sc == score_candidates_qdrant(cands, pts, order, queryFails)
        remaining == MAX_SECONDARY - Len(sc)
    IN  IF remaining > 0
        THEN sc \o pad_unscored(Range(EntryIds(sc)), cands, remaining, v)
        ELSE sc

all_emitted(pids, entries) == pids \o EntryIds(entries)

\* all_surfaced = primary_ids + [s["note_id"] for s in scored if s.get("score") is not None]
all_surfaced(pids, entries) ==
    pids \o EntryIds(SelectSeq(entries, LAMBDA e : e.score # NoScore))

\* update_last_retrieved: set_payload for each id in turn; failAt is the
\* position of the call that raises (0: none), which ends the loop.  A patch
\* of an id without a point changes nothing.
update_last_retrieved(pts, note_ids, failAt) ==
    LET done == IF failAt = 0 THEN Range(note_ids) ELSE Range(Take(note_ids, failAt - 1))
    IN  [id \in DOMAIN pts |->
            IF id \in done THEN [pts[id] EXCEPT !.last_retrieved = "today"] ELSE pts[id]]

BlockCache(outbound) ==
    [outbound |-> outbound,
     backlinks |-> InvertInto(<<>>, SelectSeq(BlockOrder, LAMBDA x : x \in DOMAIN outbound),
                              outbound)]

ChainCache == BlockCache(("a" :> <<"b">>) @@ ("b" :> <<"c">>) @@ ("c" :> <<>>))

StarCache ==
    BlockCache([x \in BlockIds |->
                   IF x = "a" THEN <<"b", "c", "d", "e", "f", "g", "h">> ELSE <<>>])

WebCache ==
    BlockCache(("a" :> <<"c", "d", "g">>) @@ ("b" :> <<"d", "a">>) @@ ("c" :> <<"e", "a">>)
               @@ ("d" :> <<"e", "f">>) @@ ("e" :> <<"a">>) @@ ("f" :> <<"a">>)
               @@ ("g" :> <<"a">>) @@ ("h" :> <<"a", "b">>))

BlockCaches == {NoCache, ChainCache, StarCache, WebCache}

Reverse(q) == [i \in 1..Len(q) |-> q[Len(q) + 1 - i]]

\* load_graph_cache and collect_bfs_candidates
Collect ==
    /\ bpc = "start"
    /\ candidate_ids' = collect_bfs_candidates(primary_ids, gcache.outbound, gcache.backlinks)
    /\ bpc' = "collected"
    /\ UNCHANGED <<primary_ids, sim, scoredList, gblock, patchFailed>>
    /\ UNCHANGED <<noteVars, queueVars, graphVars, linkVars, retrVars, fileVars, factVars,
                   storeVars, indexVars, reflVars, tailVars>>

\* score_candidates_qdrant and pad_unscored
Score ==
    /\ bpc = "collected"
    /\ \E queryFails \in BOOLEAN :
          scoredList' = scored_and_padded(candidate_ids, points, sim, queryFails, vault)
    /\ bpc' = "scored"
    /\ UNCHANGED <<primary_ids, sim, candidate_ids, gblock, patchFailed>>
    /\ UNCHANGED <<noteVars, queueVars, graphVars, linkVars, retrVars, fileVars, factVars,
                   storeVars, indexVars, reflVars, tailVars>>

\* the graph block of lines, and print
PrintGraph ==
    /\ bpc = "scored"
    /\ gblock' = scoredList
    /\ bpc' = "printed"
    /\ UNCHANGED <<primary_ids, sim, candidate_ids, scoredList, patchFailed>>
    /\ UNCHANGED <<noteVars, queueVars, graphVars, linkVars, retrVars, fileVars, factVars,
                   storeVars, indexVars, reflVars, tailVars>>

\* update_last_retrieved(all_surfaced, qd).  A set_payload on an id without a
\* point either raises or is ignored, depending on the store.
UpdateLastRetrieved ==
    /\ bpc = "printed"
    /\ LET ids == all_surfaced(primary_ids, gblock)
           absent == {i \in 1..Len(ids) : ids[i] \notin DOMAIN points}
       IN  \E failAt \in {0} \cup {Len(ids)} \cup absent :
              /\ points' = update_last_retrieved(points, ids, failAt)
              /\ patchFailed' = (failAt # 0)
    /\ bpc' = "done"
    /\ UNCHANGED <<primary_ids, sim, candidate_ids, scoredList, gblock, bm25>>
    /\ UNCHANGED <<noteVars, queueVars, graphVars, linkVars, retrVars, fileVars, factVars,
                   indexVars, reflVars, tailVars>>

BlockPointSets ==
    {BlockIds, {}, {"a", "b"}, {"a", "c"}, {"a", "c", "h"}, BlockIds \ {"b"},
     BlockIds \ {"a"}}

InitBlock ==
    /\ vault \in {[x \in S |-> FullNote("d0", "old")] : S \in {BlockIds, BlockIds \ {"d"}}}
    /\ NoteIdle
    /\ QueueIdle /\ LinksIdle /\ RetrieveIdle /\ FileIdle /\ FactIdle /\ IndexIdle
    /\ ReflectIdle
    /\ TailIdle
    /\ gcache \in BlockCaches
    /\ npatch = 0
    /\ points \in {[x \in S |-> NewPayload] : S \in BlockPointSets}
    /\ bm25 = {}
    /\ primary_ids \in {<<"a">>, <<"a", "b">>}
    /\ sim \in {BlockOrder, Reverse(BlockOrder)}
    /\ candidate_ids = <<>>
    /\ scoredList = <<>>
    /\ gblock = <<>>
    /\ patchFailed = FALSE
    /\ bpc = "start"

NextBlock ==
    \/ Collect
    \/ Score
    \/ PrintGraph
    \/ UpdateLastRetrieved

SpecBlock == InitBlock /\ [][NextBlock]_vars

IsUnscored(e) == e.score = NoScore

NumScored(entries) == Len(SelectSeq(entries, LAMBDA e : ~IsUnscored(e)))

\* the candidates that have no point and whose file exists, in candidate order
MissingFromStore ==
    SelectSeq(candidate_ids, LAMBDA x : x \notin DOMAIN points /\ x \in DOMAIN vault)

InCandidateOrder(ids) ==
    \A i, j \in 1..Len(ids) :
        i < j => IndexOf(candidate_ids, ids[i]) < IndexOf(candidate_ids, ids[j])

\* C17: when the filtered vector query scores fewer than MAX_SECONDARY
\* candidates, every candidate that is missing from the vector store and
\* whose file exists is in the graph block without a score, in candidate
\* order, unless the block already holds MAX_SECONDARY entries, wherever the
\* scored candidates sit in the candidate list.
C17_EveryMissingCandidatePadded ==
    (bpc \in {"scored", "printed", "done"} /\ NumScored(scoredList) < MAX_SECONDARY) =>
        /\ \A x \in Range(MissingFromStore) :
              \/ Entry(x, NoScore) \in Range(scoredList)
              \/ Len(scoredList) = MAX_SECONDARY
        /\ InCandidateOrder(EntryIds(SelectSeq(scoredList, IsUnscored)))

NoDuplicate(q) == \A i, j \in 1..Len(q) : q[i] = q[j] => i = j

\* C18: in every retrieval output the graph block holds at most
\* MAX_SECONDARY entries, no note id appears twice in it, and no primary
\* note id appears in it.
C18_GraphBlockBoundedDistinct ==
    /\ Len(gblock) <= MAX_SECONDARY
    /\ NoDuplicate(EntryIds(gblock))
    /\ Range(EntryIds(gblock)) \cap Range(primary_ids) = {}

\* a full block printed from more than MAX_SECONDARY candidates of a graph
\* whose notes link back to the primaries and share targets
C18_Witness ==
    /\ bpc = "printed"
    /\ gcache = WebCache
    /\ Len(candidate_ids) > MAX_SECONDARY
    /\ Len(gblock) = MAX_SECONDARY

\* C19 as stated: the graph block lists the connected notes in BFS
\* composition order (the order of the candidate list: backlinks of the
\* primaries, depth-1 links, depth-2 links), so for a -> b -> c with a the
\* only primary it lists b and then c.
C19_GraphBlockInBfsOrder ==
    bpc \in {"printed", "done"} =>
        /\ InCandidateOrder(EntryIds(gblock))
        /\ (gcache = ChainCache /\ primary_ids = <<"a">> /\ Len(gblock) = 2)
              => EntryIds(gblock) = <<"b", "c">>

\* C19: the graph block lists the candidates the filtered vector query
\* scored first, closest to the query first, and after them the candidates
\* padded in without a score, in BFS composition order; for a -> b -> c with
\* a the only primary the candidate list is b, c, and when both are scored
\* the block lists them by similarity.
C19_ScoredBySimilarityThenPadded ==
    bpc \in {"printed", "done"} =>
        /\ Range(EntryIds(gblock)) \subseteq Range(candidate_ids)
        /\ \A i, j \in 1..Len(gblock) :
              i < j =>
                 /\ IsUnscored(gblock[i]) => IsUnscored(gblock[j])
                 /\ (~IsUnscored(gblock[i]) /\ ~IsUnscored(gblock[j]))
                       => /\ IndexOf(sim, gblock[i].note_id) < IndexOf(sim, gblock[j].note_id)
                          /\ gblock[i].score > gblock[j].score
                 /\ (IsUnscored(gblock[i]) /\ IsUnscored(gblock[j]))
                       => IndexOf(candidate_ids, gblock[i].note_id)
                             < IndexOf(candidate_ids, gblock[j].note_id)
        /\ (gcache = ChainCache /\ primary_ids = <<"a">>)
              => /\ candidate_ids = <<"b", "c">>
                 /\ NumScored(gblock) = 2
                       => EntryIds(gblock) = SelectSeq(sim, LAMBDA x : x \in {"b", "c"})

\* a -> b -> c, a primary, c closer to the query than b: the block lists c, b
C19_Witness ==
    /\ bpc = "printed"
    /\ gcache = ChainCache
    /\ primary_ids = <<"a">>
    /\ candidate_ids = <<"b", "c">>
    /\ NumScored(gblock) = 2
    /\ EntryIds(gblock) = <<"c", "b">>

ScoredIds(entries) == Range(EntryIds(SelectSeq(entries, LAMBDA e : ~IsUnscored(e))))

\* C20: after a retrieval that printed its block and whose set_payload calls
\* were all accepted, last_retrieved is today for every primary note and
\* every graph note printed with a score, and the payload of every other
\* note, the graph notes padded in without a score included, is unchanged.
C20_WritebackOnlyScoredSurfaced ==
    [][(bpc = "printed" /\ bpc' = "done" /\ ~patchFailed') =>
          /\ DOMAIN points' = DOMAIN points
          /\ \A n \in DOMAIN points :
                IF n \in Range(primary_ids) \cup ScoredIds(gblock)
                THEN points'[n].last_retrieved = "today"
                ELSE points'[n] = points[n]]_vars

\* the writeback ran after a block with a scored and an unscored graph note:
\* the primary and the scored note are stamped, a further indexed note is not
C20_Witness ==
    /\ bpc = "done"
    /\ ~patchFailed
    /\ \A n \in Range(primary_ids) : n \in DOMAIN points /\ points[n].last_retrieved = "today"
    /\ \E e \in Range(gblock) : ~IsUnscored(e) /\ points[e.note_id].last_retrieved = "today"
    /\ \E e \in Range(gblock) : IsUnscored(e)
    /\ \E n \in DOMAIN points : points[n].last_retrieved = "created"

-----------------------------------------------------------------------------
(* process_queue.sanitize_note_id.                                         *)
(* A string is a sequence of characters.  "Z" is an upper-case letter,     *)
(* "eacute" a precomposed accented letter (NFKD: e + combining acute),     *)
(* "acute" a combining mark, " " and "_" characters outside [a-z0-9-].     *)

MAX_ID_LEN == 80

IdChars == {"a", "Z", "7", "-", " ", "eacute", "acute"}

SlugChars == {"a", "e", "z", "7", "-"}

\* unicodedata.normalize('NFKD', c)
nfkd(c) == IF c = "eacute" THEN <<"e", "acute">> ELSE <<c>>

\* unicodedata.combining(c) != 0
combining(c) == c = "acute"

\* c.lower()
lower_char(c) == IF c = "Z" THEN "z" ELSE c

\* unicodedata.normalize('NFKD', s): every character replaced by its
\* decomposition, of one or two characters
nfkd_str(q) ==
    LET slots == [i \in 1..(2 * Len(q)) |->
                     LET d == nfkd(q[(i + 1) \div 2])
                     IN  IF i % 2 = 1 THEN d[1]
                         ELSE IF Len(d) = 2 THEN d[2] ELSE "none"]
    IN  SelectSeq(slots, LAMBDA x : x # "none")

\* re.sub(r'[^a-z0-9\-]', '-', s)
dash_others(q) == [i \in 1..Len(q) |-> IF q[i] \in SlugChars THEN q[i] ELSE "-"]

\* re.sub(r'-+', '-', s): of every run of `-` the first one stays
collapse_dashes(q) ==
    LET marked == [i \in 1..Len(q) |->
                      IF i > 1 /\ q[i] = "-" /\ q[i - 1] = "-" THEN "none" ELSE q[i]]
    IN  SelectSeq(marked, LAMBDA x : x # "none")

RECURSIVE lstrip_dash(_)
lstrip_dash(q) == IF q # <<>> /\ Head(q) = "-" THEN lstrip_dash(Tail(q)) ELSE q

RECURSIVE rstrip_dash(_)
\* s.rstrip('-')
rstrip_dash(q) ==
    IF q # <<>> /\ q[Len(q)] = "-" THEN rstrip_dash(SubSeq(q, 1, Len(q) - 1)) ELSE q

\* s.strip('-')
strip_dash(q) == rstrip_dash(lstrip_dash(q))

sanitize_without_rstrip(note_id) ==
    LET n1 == nfkd_str(note_id)
        n2 == SelectSeq(n1, LAMBDA c : ~combining(c))
        n3 == [i \in 1..Len(n2) |-> lower_char(n2[i])]
        n6 == strip_dash(collapse_dashes(dash_others(n3)))
    IN  IF Len(n6) > MAX_ID_LEN THEN SubSeq(n6, 1, MAX_ID_LEN) ELSE n6

sanitize_note_id(note_id) ==
    LET n1 == nfkd_str(note_id)
        n2 == SelectSeq(n1, LAMBDA c : ~combining(c))
        n3 == [i \in 1..Len(n2) |-> lower_char(n2[i])]
        n4 == dash_others(n3)
        n5 == collapse_dashes(n4)
        n6 == strip_dash(n5)
    IN  IF Len(n6) > MAX_ID_LEN THEN rstrip_dash(SubSeq(n6, 1, MAX_ID_LEN)) ELSE n6

Repeat(c, n) == [i \in 1..n |-> c]

StringsUpTo(chars, n) == UNION {[1..k -> chars] : k \in 0..n}

\* short strings, and strings around the length limit: a run of letters
\* between a head and a tail
IdInputs ==
    {h \o Repeat("a", n) \o t :
        h \in {<<>>, <<"-">>, <<"Z">>},
        n \in {0, MAX_ID_LEN - 2, MAX_ID_LEN - 1, MAX_ID_LEN},
        t \in StringsUpTo(IdChars, MaxTail)}

Sanitize ==
    /\ ~called
    /\ ret' = [once |-> sanitize_note_id(arg),
                  twice |-> sanitize_note_id(sanitize_note_id(arg))]
    /\ called' = TRUE
    /\ UNCHANGED arg
    /\ UNCHANGED pureRest

InitSanitize ==
    /\ vault = <<>>
    /\ NoteIdle
    /\ PureRestIdle
    /\ arg \in IdInputs
    /\ ret = [once |-> <<>>, twice |-> <<>>]
    /\ called = FALSE

NextSanitize == Sanitize

SpecSanitize == InitSanitize /\ [][NextSanitize]_vars

\* C21: for every input string, sanitize_note_id returns a string of
\* characters a-z, 0-9 and `-` only, without leading or trailing `-`, without
\* two consecutive `-`, of at most 80 characters, and sanitizing the result
\* again gives the same string.
C21_SlugShapeAndIdempotent ==
    called =>
        LET r == ret.once
        IN  /\ \A i \in 1..Len(r) : r[i] \in SlugChars
            /\ r # <<>> => (r[1] # "-" /\ r[Len(r)] # "-")
            /\ \A i \in 1..(Len(r) - 1) : ~(r[i] = "-" /\ r[i + 1] = "-")
            /\ Len(r) <= MAX_ID_LEN
            /\ ret.twice = r

\* an input cut at the limit right after a `-`: the cut leaves 79 characters
C21_Witness ==
    /\ called
    /\ Len(arg) > MAX_ID_LEN
    /\ Len(ret.once) = MAX_ID_LEN - 1
    /\ \E i \in 1..Len(arg) : arg[i] = "eacute"

-----------------------------------------------------------------------------
(* process_queue._inject_frontmatter_field, applied once and twice.        *)

\* contents as write_note and _add_superseded_by get them (stripped): a note
\* with a body, one that has the relation field, plain text, an extended
\* note (a `---` rule in the body), a body line that starts with a field
\* name, plain text with a rule, and a note that ends with its frontmatter
InjectContents ==
    { FullNote("d0", "old"),
      <<FM, Ln("description", "d0"), Ln("relation", "new"), FM, Blank, Ln("text", "old")>>,
      PlainText("w"),
      FullNote("d0", "old") \o <<Blank, FM, Ln("text", "ext")>>,
      <<FM, Ln("description", "d0"), FM, Blank, Ln("relation", "prose")>>,
      <<Ln("text", "w"), Blank, FM, Ln("text", "x")>>,
      <<FM, Ln("description", "d0"), FM>> }

InjectFields == {"relation", "parent_note", "superseded_by"}

Inject ==
    /\ ~called
    /\ LET once == _inject_frontmatter_field(arg.content, arg.field, arg.v)
       IN  ret' = [once |-> once,
                   twice |-> _inject_frontmatter_field(once, arg.field, arg.w)]
    /\ called' = TRUE
    /\ UNCHANGED arg
    /\ UNCHANGED pureRest

InitInject ==
    /\ vault = <<>>
    /\ NoteIdle
    /\ PureRestIdle
    /\ arg \in [content : InjectContents, field : InjectFields,
                v : {"new", "updates"}, w : {"new", "a"}]
    /\ ret = [once |-> <<>>, twice |-> <<>>]
    /\ called = FALSE

NextInject == Inject

SpecInject == InitInject /\ [][NextInject]_vars

\* the content opens with `---` and has a second `---` line: a frontmatter
HasFrontmatter(content) ==
    /\ content # <<>>
    /\ content[1] = FM
    /\ \E i \in 2..Len(content) : content[i] = FM

\* the line of the closing `---`
ClosingLine(content) == Min({i \in 2..Len(content) : content[i] = FM})

\* C22: _inject_frontmatter_field is idempotent (a second injection of the
\* same field, with any value, changes nothing); when a line of the content
\* already starts with the field the content is returned unchanged, and
\* otherwise the line `field: value` is inserted immediately before the
\* closing `---` of the frontmatter.
C22_InjectIdempotentBeforeClosing ==
    called =>
        LET c == arg.content
            present == \E i \in 2..Len(c) : c[i].k = arg.field
        IN  /\ ret.twice = ret.once
            /\ present => ret.once = c
            /\ (~present /\ HasFrontmatter(c)) =>
                  ret.once = SubSeq(c, 1, ClosingLine(c) - 1)
                                \o <<Ln(arg.field, arg.v)>>
                                \o SubSeq(c, ClosingLine(c), Len(c))

-----------------------------------------------------------------------------
(* process_queue._repair_json_newlines.                                    *)
(* Characters: "q" is the double quote, "bs" the backslash, "nl", "cr" and *)
(* "tab" the literal control characters, "x" any other character; "n",     *)
(* "r", "t" are the letters of the escapes the repair writes.              *)

JsonChars == {"q", "bs", "nl", "cr", "tab", "x"}

ControlChars == {"nl", "cr", "tab"}

\* one turn of the loop, on [result, in_string, escaped]
repair_step(st, char) ==
    IF st.escaped
    THEN [st EXCEPT !.result = Append(@, char), !.escaped = FALSE]
    ELSE IF char = "bs" /\ st.in_string
    THEN [st EXCEPT !.result = Append(@, char), !.escaped = TRUE]
    ELSE IF char = "q"
    THEN [st EXCEPT !.result = Append(@, char), !.in_string = ~@]
    ELSE IF char = "nl" /\ st.in_string THEN [st EXCEPT !.result = @ \o <<"bs", "n">>]
    ELSE IF char = "cr" /\ st.in_string THEN [st EXCEPT !.result = @ \o <<"bs", "r">>]
    ELSE IF char = "tab" /\ st.in_string THEN [st EXCEPT !.result = @ \o <<"bs", "t">>]
    ELSE [st EXCEPT !.result = Append(@, char)]

_repair_json_newlines(raw) ==
    LET f[i \in 0..Len(raw)] ==
            IF i = 0 THEN [result |-> <<>>, in_string |-> FALSE, escaped |-> FALSE]
            ELSE repair_step(f[i - 1], raw[i])
    IN  f[Len(raw)].result

Repair ==
    /\ ~called
    /\ ret' = _repair_json_newlines(arg)
    /\ called' = TRUE
    /\ UNCHANGED arg
    /\ UNCHANGED pureRest

InitRepair ==
    /\ vault = <<>>
    /\ NoteIdle
    /\ PureRestIdle
    /\ arg \in StringsUpTo(JsonChars, MaxJsonLen)
    /\ ret = <<>>
    /\ called = FALSE

NextRepair == Repair

SpecRepair == InitRepair /\ [][NextRepair]_vars

\* the JSON lexer on a text: after i characters, is the reader inside a
\* double-quoted string, and is the next character escaped
JsonLex(text) ==
    [i \in 0..Len(text) |->
        LET lex[j \in 0..i] ==
                IF j = 0 THEN [inside |-> FALSE, esc |-> FALSE]
                ELSE LET p == lex[j - 1]
                     IN  IF p.inside /\ p.esc THEN [inside |-> TRUE, esc |-> FALSE]
                         ELSE IF p.inside /\ text[j] = "bs" THEN [inside |-> TRUE, esc |-> TRUE]
                         ELSE IF text[j] = "q" THEN [inside |-> ~p.inside, esc |-> FALSE]
                         ELSE p
        IN  lex[i]]

\* position i of the text is inside a string
InsideString(text, i) == JsonLex(text)[i - 1].inside

ControlInsideString(text) ==
    \E i \in 1..Len(text) : text[i] \in ControlChars /\ InsideString(text, i)

\* the characters outside strings (the quotes included), in order
OutsideText(text) ==
    LET marked == [i \in 1..Len(text) |->
                      IF InsideString(text, i) /\ ~(text[i] = "q" /\ ~JsonLex(text)[i - 1].esc)
                      THEN "none" ELSE text[i]]
    IN  SelectSeq(marked, LAMBDA c : c # "none")

\* C23: in the output of _repair_json_newlines no literal newline, carriage
\* return or tab is at a position inside a double-quoted string, every
\* character outside strings is copied unchanged, and an input without a
\* literal control character inside a string is returned unchanged.
C23_NoControlInsideStrings ==
    called =>
        /\ ~ControlInsideString(ret)
        /\ OutsideText(ret) = OutsideText(arg)
        /\ ~ControlInsideString(arg) => ret = arg

-----------------------------------------------------------------------------
(* vault_retrieve.rrf_merge as a function of two ranked lists.             *)
(* A ranked list is the sequence of the note ids of its items; a store     *)
(* answers with one item per note.                                         *)

RankIds == {"a", "b", "c", "d"}

RankedLists == {q \in StringsUpTo(RankIds, MaxRankLen) : \A i, j \in 1..Len(q) : q[i] = q[j] => i = j}

\* scores[nid] at the end of the two loops
rrf_score(vec, keyword_results, k, nid) ==
    FracAdd(RankScore(vec, nid, k), RankScore(keyword_results, nid, k))

RrfMerge ==
    /\ ~called
    /\ LET ids == rrf_merge(arg.vec, arg.kw, arg.k, arg.top_k)
       IN  ret' = [ids |-> ids,
                   rrf_score |-> [nid \in Range(ids) |->
                                     rrf_score(arg.vec, arg.kw, arg.k, nid)]]
    /\ called' = TRUE
    /\ UNCHANGED arg
    /\ UNCHANGED pureRest

InitRrf ==
    /\ vault = <<>>
    /\ NoteIdle
    /\ PureRestIdle
    /\ arg \in [vec : RankedLists, kw : RankedLists, k : {RRF_K, 1}, top_k : 1..RRF_FINAL_TOP_K]
    /\ ret = [ids |-> <<>>, rrf_score |-> <<>>]
    /\ called = FALSE

NextRrf == RrfMerge

SpecRrf == InitRrf /\ [][NextRrf]_vars

FracEq(x, y) == x.n * y.d = y.n * x.d

\* the 0-based rank of nid in a list
Rank0(q, nid) == IndexOf(q, nid) - 1

\* the sum over the lists that contain nid of 1 / (k + rank + 1)
FusedScore(nid) ==
    LET one(q) == Frac(1, arg.k + Rank0(q, nid) + 1)
    IN  IF nid \in Range(arg.vec) /\ nid \in Range(arg.kw) THEN FracAdd(one(arg.vec), one(arg.kw))
        ELSE IF nid \in Range(arg.vec) THEN one(arg.vec)
        ELSE one(arg.kw)

\* first-insertion order: the vector list, then the notes only the keyword list has
InsertionOrder == arg.vec \o SelectSeq(arg.kw, LAMBDA x : x \notin Range(arg.vec))

InBoth(nid) == nid \in Range(arg.vec) /\ nid \in Range(arg.kw)

\* the best (smallest) rank of nid over the lists that contain it
BestRank(nid) ==
    Min({Rank0(q, nid) : q \in {l \in {arg.vec, arg.kw} : nid \in Range(l)}})

\* C24: rrf_merge returns at most top_k entries with distinct note ids, each
\* scored as the sum over the lists containing it of 1/(k + rank + 1), in
\* non-increasing fused score with ties in first-insertion order; a note of
\* both lists ranks above a note of one list at the same or a worse rank;
\* vector [a, b], keyword [b, c], k = 60, top_k = 3 gives [b, a, c].
C24_RrfMergeOrder ==
    called =>
        LET ids == ret.ids
            all == InsertionOrder
        IN  /\ Len(ids) = Min({arg.top_k, Len(all)})
            /\ NoDuplicate(ids)
            /\ Range(ids) \subseteq Range(all)
            /\ \A n \in Range(ids) : FracEq(ret.rrf_score[n], FusedScore(n))
            /\ \A i, j \in 1..Len(ids) :
                  i < j =>
                     /\ ~FracGreater(FusedScore(ids[j]), FusedScore(ids[i]))
                     /\ FracEq(FusedScore(ids[i]), FusedScore(ids[j]))
                           => IndexOf(all, ids[i]) < IndexOf(all, ids[j])
            /\ \A x \in Range(ids), y \in Range(all) \ Range(ids) :
                  ~FracGreater(FusedScore(y), FusedScore(x))
            /\ \A x, y \in Range(all) :
                  (InBoth(x) /\ ~InBoth(y) /\ BestRank(y) >= BestRank(x)) =>
                     /\ FracGreater(FusedScore(x), FusedScore(y))
                     /\ y \in Range(ids) =>
                           (x \in Range(ids) /\ IndexOf(ids, x) < IndexOf(ids, y))
            /\ (arg.vec = <<"a", "b">> /\ arg.kw = <<"b", "c">> /\ arg.k = RRF_K
                   /\ arg.top_k = 3)
                  => ids = <<"b", "a", "c">>

\* the example of the specification
C24_Witness ==
    /\ called
    /\ arg = [vec |-> <<"a", "b">>, kw |-> <<"b", "c">>, k |-> RRF_K, top_k |-> 3]
    /\ ret.ids = <<"b", "a", "c">>

\* ---------------------------------------------------------------------
\* BM25 keyword search (vault_retrieve.py)
\* ---------------------------------------------------------------------

\* words of a query: two indexed terms, a term no document has, a stop word
\* and a one-letter word
QueryWords == {"graph", "cache", "zebra", "the", "x"}

STOPWORDS == {"the"}

ShortWords == {"x"}

IndexTerms == {"graph", "cache"}

\* tokenize: stop words and words of one letter are dropped
tokenize(words) == SelectSeq(words, LAMBDA w : w \notin STOPWORDS /\ w \notin ShortWords)

\* an indexed document: term frequencies and length in tokens
Doc(g, c, other) == [tf |-> ("graph" :> g) @@ ("cache" :> c), len |-> g + c + other]

DocShapes == {Doc(0, 0, 1), Doc(1, 0, 0), Doc(2, 0, 1), Doc(0, 1, 0), Doc(1, 1, 0)}

TfOf(doc, token) == IF token \in DOMAIN doc.tf THEN doc.tf[token] ELSE 0

RECURSIVE SumLen(_)
SumLen(docs) == IF docs = <<>> THEN 0 ELSE Head(docs).len + SumLen(Tail(docs))

\* 1000 * log((N - df + 0.5) / (df + 0.5) + 1), rounded, for N up to 5
IdfMilli(N, df) ==
    <<  <<288>>,
        <<693, 182>>,
        <<981, 470, 134>>,
        <<1204, 693, 357, 105>>,
        <<1386, 875, 539, 288, 87>>  >>[N][df]

\* idf * tf * (k1 + 1) / (tf + k1 * (1 - b + b * len / avgdl)) with k1 = 1.5,
\* b = 0.75 and avgdl = total / N, in thousandths rounded down
TermScore(doc, token, N, total, df) ==
    LET tf == TfOf(doc, token)
    IN  (IdfMilli(N, df) * 20 * tf * total) \div (8 * tf * total + 3 * total + 9 * doc.len * N)

RECURSIVE SumTerms(_, _, _, _, _)
SumTerms(doc, query_tokens, docs, N, total) ==
    IF query_tokens = <<>> THEN 0
    ELSE LET token == Head(query_tokens)
             df    == Cardinality({i \in 1..N : TfOf(docs[i], token) > 0})
             rest  == SumTerms(doc, Tail(query_tokens), docs, N, total)
         IN  IF df = 0 THEN rest ELSE TermScore(doc, token, N, total, df) + rest

\* _score_bm25: the score of every document, by index position
_score_bm25(docs, query_tokens) ==
    [i \in 1..Len(docs) |-> SumTerms(docs[i], query_tokens, docs, Len(docs), SumLen(docs))]

Hit(i, score) == [note_id |-> i, score |-> score]

bm25_unfiltered(query, docs, top_k) ==
    LET tokens == tokenize(query)
        score  == _score_bm25(docs, tokens)
        order  == SortedDesc([i \in 1..Len(docs) |-> i],
                             [i \in 1..Len(docs) |-> Frac(score[i], 1)])
        top    == Take(order, top_k)
    IN  [j \in 1..Len(top) |-> Hit(top[j], score[top[j]])]

bm25_search(query, docs, top_k) ==
    LET tokens == tokenize(query)
        score  == _score_bm25(docs, tokens)
        order  == SortedDesc([i \in 1..Len(docs) |-> i],
                             [i \in 1..Len(docs) |-> Frac(score[i], 1)])
        top    == Take(order, top_k)
        kept   == SelectSeq(top, LAMBDA i : score[i] > 0)
    IN  IF tokens = <<>> \/ docs = <<>> THEN <<>>
        ELSE [j \in 1..Len(kept) |-> Hit(kept[j], score[kept[j]])]

Bm25Search ==
    /\ ~called
    /\ ret' = bm25_search(arg.query, arg.docs, arg.top_k)
    /\ called' = TRUE
    /\ UNCHANGED arg
    /\ UNCHANGED pureRest

InitBm25 ==
    /\ vault = <<>>
    /\ NoteIdle
    /\ PureRestIdle
    /\ arg \in [query : StringsUpTo(QueryWords, MaxQueryLen),
                docs  : StringsUpTo(DocShapes, MaxDocs),
                top_k : 1..2]
    /\ ret = <<>>
    /\ called = FALSE

NextBm25 == Bm25Search

SpecBm25 == InitBm25 /\ [][NextBm25]_vars

\* the document at index position i holds a token of the query
HoldsQueryToken(i) == \E t \in Range(tokenize(arg.query)) : TfOf(arg.docs[i], t) > 0

\* C25: bm25_search returns at most top_k documents; each holds a query token
\* and has a score above 0; the results are in non-increasing score order with
\* ties in index order; a query whose tokens no document holds, or that has no
\* token once stop words are removed, returns the empty list.
C25_Bm25Search ==
    called =>
        /\ Len(ret) <= arg.top_k
        /\ \A j \in 1..Len(ret) :
              /\ ret[j].note_id \in 1..Len(arg.docs)
              /\ HoldsQueryToken(ret[j].note_id)
              /\ ret[j].score > 0
        /\ \A i, j \in 1..Len(ret) :
              i < j =>
                 /\ ret[i].score >= ret[j].score
                 /\ ret[i].score = ret[j].score => ret[i].note_id < ret[j].note_id
        /\ (\A i \in 1..Len(arg.docs) : ~HoldsQueryToken(i)) => ret = <<>>
        /\ tokenize(arg.query) = <<>> => ret = <<>>

\* three documents, the first without a query token and the other two tied:
\* the tied pair is returned in index order and the first is left out
C25_Witness ==
    /\ called
    /\ Len(arg.docs) = 3
    /\ arg.top_k = 2
    /\ ~HoldsQueryToken(1)
    /\ Len(ret) = 2
    /\ ret[1].score = ret[2].score
    /\ ret[1].note_id = 2
    /\ ret[2].note_id = 3

\* ---------------------------------------------------------------------
\* build_graph_index as a function of the parsed notes (vault_embed.py)
\* ---------------------------------------------------------------------

\* the lines of a note text: links to the two notes, to an id no note has,
\* and a link with a display part
IndexLinkLines == {Ln("link", "a"), Ln("link", "b"), Ln("link", "m"), Ln("linkd", "a")}

IndexNoteIds == {"a", "b"}

\* the parsed notes, by note id
IndexNotes ==
    UNION {[S -> StringsUpTo(IndexLinkLines, MaxNoteLinks)] : S \in SUBSET IndexNoteIds}

BuildGraphIndex ==
    /\ ~called
    /\ ret' = build_graph_index(arg)
    /\ called' = TRUE
    /\ UNCHANGED arg
    /\ UNCHANGED pureRest

InitGraphIndex ==
    /\ vault = <<>>
    /\ NoteIdle
    /\ PureRestIdle
    /\ arg \in IndexNotes
    /\ ret = [outbound |-> <<>>, backlinks |-> <<>>]
    /\ called = FALSE

NextGraphIndex == BuildGraphIndex

SpecGraphIndex == InitGraphIndex /\ [][NextGraphIndex]_vars

\* the position of the first occurrence of x in q
FirstIndex(q, x) == Min({i \in 1..Len(q) : q[i] = x})

\* the targets of the `[[X]]` links of note n, in text order
WikiTargets(n) == LinkTargets(arg[n], {"link"})

\* C26: the outbound lists hold only ids of notes of the list, without
\* duplicates and in first-occurrence order, with one key per note; backlinks
\* is the inverse of outbound: s is in backlinks[t] iff t is in outbound[s].
C26_GraphIndexInverse ==
    called =>
        LET outbound  == ret.outbound
            backlinks == ret.backlinks
        IN  /\ DOMAIN outbound = DOMAIN arg
            /\ \A n \in DOMAIN outbound :
                  /\ Range(outbound[n]) \subseteq DOMAIN arg
                  /\ Range(outbound[n]) \subseteq Range(WikiTargets(n))
                  /\ NoDuplicate(outbound[n])
                  /\ \A i, j \in 1..Len(outbound[n]) :
                        i < j => FirstIndex(WikiTargets(n), outbound[n][i])
                                    < FirstIndex(WikiTargets(n), outbound[n][j])
            /\ \A s, t \in IndexNoteIds \cup {"m"} :
                  (t \in DOMAIN backlinks /\ s \in Range(backlinks[t]))
                     <=> (s \in DOMAIN outbound /\ t \in Range(outbound[s]))

\* a note that links b, itself and b again, next to a note that links itself
C26_Witness ==
    /\ called
    /\ DOMAIN arg = {"a", "b"}
    /\ arg["a"] = <<Ln("link", "b"), Ln("link", "a"), Ln("link", "b")>>
    /\ arg["b"] = <<Ln("link", "b")>>
    /\ ret.outbound["a"] = <<"b", "a">>
    /\ Range(ret.backlinks["b"]) = {"a", "b"}

\* ---------------------------------------------------------------------
\* Source chunks: save_source_chunk (process_queue.py)
\* A chunk file is a sequence of lines and characters: Ln("char", c) is
\* one character of the conversation excerpt, "cr" a carriage return and
\* "lf" a line feed.
\* ---------------------------------------------------------------------

SOURCE_CHUNK_MAX_CHARS == 2000

ConvChars == {"x", "cr"}

WhiteChars == {"cr", "lf", "sp"}

ChunkNoteIds == {"n"}

ChunkRelations == {Rel("NEW", ""), Rel("UPDATES", "t"), Rel("EXTENDS", "t"), Rel("EXTENDS", "n")}

\* str.strip()
strip_chars(q) ==
    LET inner == {i \in 1..Len(q) : q[i] \notin WhiteChars}
    IN  IF inner = {} THEN <<>>
        ELSE SubSeq(q, Min(inner), CHOOSE i \in inner : \A j \in inner : j <= i)

\* conversation[-SOURCE_CHUNK_MAX_CHARS:].strip(), marked when the conversation was cut
chunk_of(conversation) ==
    LET n    == Len(conversation)
        from == IF n > SOURCE_CHUNK_MAX_CHARS THEN n - SOURCE_CHUNK_MAX_CHARS + 1 ELSE 1
        kept == strip_chars(SubSeq(conversation, from, n))
        body == [i \in 1..Len(kept) |-> Ch(kept[i])]
    IN  IF n > SOURCE_CHUNK_MAX_CHARS
        THEN <<Ln("truncated", ""), Ch("lf"), Ch("lf")>> \o body
        ELSE body

\* the header of a fresh chunk file
ChunkHeader(actual_id, relation) ==
    <<FM, Ln("source_for", actual_id), Ln("captured", "today"),
      Ln("relation", relation.kind), Ln("relation_target", relation.target), FM, Blank>>

ExtensionSource == <<Ch("lf"), Ch("lf"), FM, Ln("extension_source", "today"), Blank>>

\* save_source_chunk on the directory state st = [dir, files]; fail names the
\* step that raises, which the function logs
save_source_chunk(st, enabled, note_id, relation, conversation, fail) ==
    LET actual_id  == actual_id_of(note_id, relation)
        chunk      == chunk_of(conversation)
        existing   == read_text(st.files[actual_id])
        new_content ==
            IF relation.kind = "EXTENDS" /\ actual_id \in DOMAIN st.files
            THEN existing \o ExtensionSource \o chunk
            ELSE ChunkHeader(actual_id, relation) \o chunk
    IN  IF ~enabled \/ fail = "mkdir" THEN st
        ELSE IF fail = "write" THEN [st EXCEPT !.dir = TRUE]
        ELSE [dir |-> TRUE, files |-> (actual_id :> new_content) @@ st.files]

SaveSourceChunk ==
    /\ nsave < MaxSaves
    /\ \E note_id \in ChunkNoteIds, relation \in ChunkRelations,
          conversation \in StringsUpTo(ConvChars, MaxConvLen),
          fail \in {"none", "mkdir", "write"} :
          /\ fail = "mkdir" => ~chunkDir
          /\ LET st == save_source_chunk([dir |-> chunkDir, files |-> chunks], chunksOn,
                                         note_id, relation, conversation, fail)
             IN  /\ chunkDir' = st.dir
                 /\ chunks' = st.files
          /\ lastSave' = [note_id |-> note_id, relation |-> relation,
                          conversation |-> conversation, fail |-> fail]
    /\ nsave' = nsave + 1
    /\ UNCHANGED chunksOn
    /\ UNCHANGED chunkRest

InitChunk ==
    /\ vault = <<>>
    /\ NoteIdle
    /\ ChunkRestIdle
    /\ chunkDir = FALSE
    /\ chunks = <<>>
    /\ chunksOn \in BOOLEAN
    /\ lastSave = NoSave
    /\ nsave = 0

NextChunk == SaveSourceChunk

SpecChunk == InitChunk /\ [][NextChunk]_vars

IsPrefixOf(p, q) == Len(p) <= Len(q) /\ SubSeq(q, 1, Len(p)) = p

IsSuffixOf(p, q) == Len(p) <= Len(q) /\ SubSeq(q, Len(q) - Len(p) + 1, Len(q)) = p

\* the note a call is about: the target for UPDATES/EXTENDS, the note_id for NEW
AffectedId(c) == IF c.relation.kind = "NEW" THEN c.note_id ELSE c.relation.target

\* C27: a save_source_chunk call touches only the chunk file of the affected
\* note id; an EXTENDS call on a note whose chunk file exists keeps the
\* previous chunk content as a prefix and appends the new excerpt; a NEW or
\* UPDATES call replaces the chunk; with SOURCE_CHUNKS_ENABLED false the call
\* creates no file and no directory.
C27_SourceChunks ==
    [][nsave' # nsave =>
         LET c  == lastSave'
             id == AffectedId(c)
         IN  /\ DOMAIN chunks' \subseteq DOMAIN chunks \cup {id}
             /\ \A o \in DOMAIN chunks \ {id} : chunks'[o] = chunks[o]
             /\ ~chunksOn => (chunks' = chunks /\ chunkDir' = chunkDir)
             /\ (chunksOn /\ c.fail = "none" /\ c.relation.kind = "EXTENDS"
                    /\ id \in DOMAIN chunks) =>
                   /\ IsPrefixOf(chunks[id], chunks'[id])
                   /\ IsSuffixOf(chunk_of(c.conversation), chunks'[id])
                   /\ Len(chunks'[id]) > Len(chunks[id])
             /\ (chunksOn /\ c.fail = "none" /\ c.relation.kind \in {"NEW", "UPDATES"}) =>
                   chunks'[id] = ChunkHeader(id, c.relation) \o chunk_of(c.conversation)
    ]_vars

\* the same, for EXTENDS calls on a chunk file without a carriage return
C27_HoldsWithoutCarriageReturn ==
    [][nsave' # nsave =>
         LET c  == lastSave'
             id == AffectedId(c)
         IN  /\ DOMAIN chunks' \subseteq DOMAIN chunks \cup {id}
             /\ \A o \in DOMAIN chunks \ {id} : chunks'[o] = chunks[o]
             /\ ~chunksOn => (chunks' = chunks /\ chunkDir' = chunkDir)
             /\ (chunksOn /\ c.fail = "none" /\ c.relation.kind = "EXTENDS"
                    /\ id \in DOMAIN chunks /\ Ch("cr") \notin Range(chunks[id])) =>
                   /\ IsPrefixOf(chunks[id], chunks'[id])
                   /\ IsSuffixOf(chunk_of(c.conversation), chunks'[id])
                   /\ Len(chunks'[id]) > Len(chunks[id])
             /\ (chunksOn /\ c.fail = "none" /\ c.relation.kind \in {"NEW", "UPDATES"}) =>
                   chunks'[id] = ChunkHeader(id, c.relation) \o chunk_of(c.conversation)
    ]_vars

\* ---------------------------------------------------------------------
\* validate_extracted_facts (process_queue.py)
\* ---------------------------------------------------------------------

ExtractedFacts == {"f1", "f2"}

\* an element of the JSON array the validation call returned: an integer or
\* something else
Idx(v) == [int |-> TRUE, v |-> v]

NotAnInt == [int |-> FALSE, v |-> 0]

IndexValues == {Idx(v) : v \in -1..MaxFactList} \cup {NotAnInt}

\* what the validation call gives: it raises, or its text parses to something
\* that is no list, or to a list
ValidationReplies ==
    {[kind |-> "raises", indices |-> <<>>], [kind |-> "no_list", indices |-> <<>>]}
        \cup {[kind |-> "list", indices |-> q] : q \in StringsUpTo(IndexValues, MaxIndexLen)}

\* [facts[i] for i in valid_indices if isinstance(i, int) and 0 <= i < len(facts)]
validate_extracted_facts(facts, enabled, reply) ==
    LET ok(i)  == i.int /\ 0 <= i.v /\ i.v < Len(facts)
        picked_indices == SelectSeq(reply.indices, ok)
    IN  IF ~enabled \/ facts = <<>> THEN facts
        ELSE IF reply.kind # "list" THEN facts
        ELSE [j \in 1..Len(picked_indices) |-> facts[picked_indices[j].v + 1]]

ValidateFacts ==
    /\ ~called
    /\ ret' = validate_extracted_facts(arg.facts, arg.enabled, arg.reply)
    /\ called' = TRUE
    /\ UNCHANGED arg
    /\ UNCHANGED pureRest

InitValidate ==
    /\ vault = <<>>
    /\ NoteIdle
    /\ PureRestIdle
    /\ arg \in [facts : StringsUpTo(ExtractedFacts, MaxFactList), enabled : BOOLEAN,
                reply : ValidationReplies]
    /\ ret = <<>>
    /\ called = FALSE

NextValidate == ValidateFacts

SpecValidate == InitValidate /\ [][NextValidate]_vars

\* how often x occurs in q
Occurrences(q, x) == Cardinality({i \in 1..Len(q) : q[i] = x})

\* C28: validate_extracted_facts only removes facts: every element of the
\* result is an input fact and no fact occurs in the result more often than
\* in the input, whatever index list the validation call returns; with
\* validation disabled, an empty input or a failed call the input is returned.
C28_ValidationOnlyRemoves ==
    called =>
        /\ Range(ret) \subseteq Range(arg.facts)
        /\ \A f \in ExtractedFacts : Occurrences(ret, f) <= Occurrences(arg.facts, f)
        /\ (~arg.enabled \/ arg.facts = <<>> \/ arg.reply.kind = "raises") => ret = arg.facts

\* the same, for index lists that name no index twice
C28_HoldsForDistinctIndices ==
    (called /\ NoDuplicate(arg.reply.indices)) =>
        /\ Range(ret) \subseteq Range(arg.facts)
        /\ \A f \in ExtractedFacts : Occurrences(ret, f) <= Occurrences(arg.facts, f)
        /\ (~arg.enabled \/ arg.facts = <<>> \/ arg.reply.kind = "raises") => ret = arg.facts

\* ---------------------------------------------------------------------
\* The extraction worker: invocations of process_queue.main under the
\* worker lock.  main is process_queue.py; taking and releasing the lock at
\* worker_lock_path is the part of the worker that runs process_queue_script
\* and follows the specification's scheduling model.
\* ---------------------------------------------------------------------

WorkerIds == {1, 2}

WorkerTickets == {"s1", "s2"}

\* sorted(tickets, key=mtime)
TicketOrder == <<"s1", "s2">>

ProcessingPcs == {"glob", "loop", "writing", "patching", "archiving"}

lock_ignored(l) == TRUE

\* the filesystem lock is free
lock_free(l) == l = 0

\* an invocation of the worker starts
WorkerStart(w) ==
    /\ wpc[w] = "idle"
    /\ wruns < MaxWorkerRuns
    /\ wruns' = wruns + 1
    /\ wpc' = [wpc EXCEPT ![w] = "locking"]
    /\ UNCHANGED <<wlock, wtodo, wcur, wqueue, wdone, handledBy>>
    /\ UNCHANGED vault
    /\ UNCHANGED <<prev, call, written, ncalls>>
    /\ UNCHANGED workerRestTail

\* it takes the lock when the lock is free
Acquire(w) ==
    /\ wpc[w] = "locking"
    /\ lock_free(wlock)
    /\ wlock' = w
    /\ wpc' = [wpc EXCEPT ![w] = "glob"]
    /\ UNCHANGED <<wtodo, wcur, wqueue, wdone, handledBy, wruns>>
    /\ UNCHANGED vault
    /\ UNCHANGED <<prev, call, written, ncalls>>
    /\ UNCHANGED workerRestTail

\* or leaves when another invocation holds it
GiveUp(w) ==
    /\ wpc[w] = "locking"
    /\ ~lock_free(wlock)
    /\ wpc' = [wpc EXCEPT ![w] = "idle"]
    /\ UNCHANGED <<wlock, wtodo, wcur, wqueue, wdone, handledBy, wruns>>
    /\ UNCHANGED vault
    /\ UNCHANGED <<prev, call, written, ncalls>>
    /\ UNCHANGED workerRestTail

\* main, lines 872-881: glob the queue, sort by mtime; exit when it is empty
WorkerGlob(w) ==
    /\ wpc[w] = "glob"
    /\ wtodo' = [wtodo EXCEPT ![w] = SelectSeq(TicketOrder, LAMBDA t : t \in wqueue)]
    /\ wpc' = [wpc EXCEPT ![w] = IF wqueue = {} THEN "release" ELSE "loop"]
    /\ UNCHANGED <<wlock, wcur, wqueue, wdone, handledBy, wruns>>
    /\ UNCHANGED vault
    /\ UNCHANGED <<prev, call, written, ncalls>>
    /\ UNCHANGED workerRestTail

\* main, lines 883-889: the next ticket is skipped when it is in processed/,
\* else process_ticket starts on it (a ticket that is gone is an error that
\* process_ticket logs)
WorkerLoop(w) ==
    /\ wpc[w] = "loop"
    /\ IF wtodo[w] = <<>>
       THEN /\ wpc' = [wpc EXCEPT ![w] = "release"]
            /\ UNCHANGED <<wtodo, wcur, wqueue, handledBy>>
       ELSE LET t == Head(wtodo[w])
            IN  /\ wtodo' = [wtodo EXCEPT ![w] = Tail(wtodo[w])]
                /\ IF t \in wdone
                   THEN /\ wqueue' = wqueue \ {t}
                        /\ UNCHANGED <<wpc, wcur, handledBy>>
                   ELSE IF t \notin wqueue
                   THEN UNCHANGED <<wpc, wcur, wqueue, handledBy>>
                   ELSE /\ wpc' = [wpc EXCEPT ![w] = "writing"]
                        /\ wcur' = [wcur EXCEPT ![w] = t]
                        /\ handledBy' = [handledBy EXCEPT ![t] = @ \cup {w}]
                        /\ UNCHANGED wqueue
    /\ UNCHANGED <<wlock, wdone, wruns>>
    /\ UNCHANGED vault
    /\ UNCHANGED <<prev, call, written, ncalls>>
    /\ UNCHANGED workerRestTail

\* process_ticket, lines 796-822: the notes of the ticket are written
WorkerWrite(w) ==
    /\ wpc[w] = "writing"
    /\ wpc' = [wpc EXCEPT ![w] = "patching"]
    /\ UNCHANGED <<wlock, wtodo, wcur, wqueue, wdone, handledBy, wruns>>
    /\ UNCHANGED vault
    /\ UNCHANGED <<prev, call, written, ncalls>>
    /\ UNCHANGED workerRestTail

\* process_ticket, lines 826-827: the graph cache is patched
WorkerPatch(w) ==
    /\ wpc[w] = "patching"
    /\ wpc' = [wpc EXCEPT ![w] = "archiving"]
    /\ UNCHANGED <<wlock, wtodo, wcur, wqueue, wdone, handledBy, wruns>>
    /\ UNCHANGED vault
    /\ UNCHANGED <<prev, call, written, ncalls>>
    /\ UNCHANGED workerRestTail

\* _archive: the ticket moves to processed/
WorkerArchive(w) ==
    /\ wpc[w] = "archiving"
    /\ wqueue' = wqueue \ {wcur[w]}
    /\ wdone' = wdone \cup {wcur[w]}
    /\ wcur' = [wcur EXCEPT ![w] = ""]
    /\ wpc' = [wpc EXCEPT ![w] = "loop"]
    /\ UNCHANGED <<wlock, wtodo, handledBy, wruns>>
    /\ UNCHANGED vault
    /\ UNCHANGED <<prev, call, written, ncalls>>
    /\ UNCHANGED workerRestTail

\* main has returned: the lock is released
Release(w) ==
    /\ wpc[w] = "release"
    /\ wlock' = IF wlock = w THEN 0 ELSE wlock
    /\ wpc' = [wpc EXCEPT ![w] = "idle"]
    /\ UNCHANGED <<wtodo, wcur, wqueue, wdone, handledBy, wruns>>
    /\ UNCHANGED vault
    /\ UNCHANGED <<prev, call, written, ncalls>>
    /\ UNCHANGED workerRestTail

\* the enqueuer drops a ticket of a session that has none yet
WorkerEnqueue(t) ==
    /\ t \notin wqueue
    /\ t \notin wdone
    /\ handledBy[t] = {}
    /\ wqueue' = wqueue \cup {t}
    /\ UNCHANGED <<wlock, wpc, wtodo, wcur, wdone, handledBy, wruns>>
    /\ UNCHANGED vault
    /\ UNCHANGED <<prev, call, written, ncalls>>
    /\ UNCHANGED workerRestTail

InitWorker ==
    /\ vault = <<>>
    /\ NoteIdle
    /\ WorkerRestIdle
    /\ wlock = 0
    /\ wpc = [w \in WorkerIds |-> "idle"]
    /\ wtodo = [w \in WorkerIds |-> <<>>]
    /\ wcur = [w \in WorkerIds |-> ""]
    /\ wqueue \in SUBSET WorkerTickets
    /\ wdone = {}
    /\ handledBy = [t \in WorkerTickets |-> {}]
    /\ wruns = 0

NextWorker ==
    \/ \E w \in WorkerIds : WorkerStart(w)
    \/ \E w \in WorkerIds : Acquire(w)
    \/ \E w \in WorkerIds : GiveUp(w)
    \/ \E w \in WorkerIds : WorkerGlob(w)
    \/ \E w \in WorkerIds : WorkerLoop(w)
    \/ \E w \in WorkerIds : WorkerWrite(w)
    \/ \E w \in WorkerIds : WorkerPatch(w)
    \/ \E w \in WorkerIds : WorkerArchive(w)
    \/ \E w \in WorkerIds : Release(w)
    \/ \E t \in WorkerTickets : WorkerEnqueue(t)

SpecWorker == InitWorker /\ [][NextWorker]_vars

\* the invocations that are inside main
Processing == {w \in WorkerIds : wpc[w] \in ProcessingPcs}

REFLECT_STALE_DAYS == 180

\* cutoff = TODAY - timedelta(days=REFLECT_STALE_DAYS)
StaleCutoff == Today - REFLECT_STALE_DAYS

\* dates around the cutoff, and today
StaleDates == {Date(StaleCutoff + d) : d \in -1..1} \cup {Date(Today)}

StaleNoteIds == {"a", "b"}

\* what qd.retrieve gives for a note: it raises, or no point, or a point
\* whose payload has last_retrieved (a date) or lacks the key (NoDate)
PointStates ==
    {[kind |-> "raises", last_retrieved |-> NoDate],
     [kind |-> "no_point", last_retrieved |-> NoDate]}
        \cup {[kind |-> "point", last_retrieved |-> lr] : lr \in {NoDate} \cup StaleDates}

\* note.get("created", TODAY.isoformat())
created_of(note) == IF note.created.kind = "none" THEN Today ELSE note.created.day

\* find_stale_notes: the ids of the notes it returns; clientFails says that
\* the vector store cannot be opened
find_stale_notes(notes, store, clientFails) ==
    IF clientFails
    THEN {n \in DOMAIN notes : created_of(notes[n]) <= StaleCutoff}
    ELSE {n \in DOMAIN notes :
             /\ ~(created_of(notes[n]) > StaleCutoff)
             /\ store[n].kind = "point"
             /\ LET last_ret == IF store[n].last_retrieved.kind = "none"
                                THEN created_of(notes[n])
                                ELSE store[n].last_retrieved.day
                IN  last_ret <= StaleCutoff}

FindStale ==
    /\ ~called
    /\ ret' = find_stale_notes(arg.notes, arg.store, arg.clientFails)
    /\ called' = TRUE
    /\ UNCHANGED arg
    /\ UNCHANGED pureRest

InitStale ==
    /\ vault = <<>>
    /\ NoteIdle
    /\ PureRestIdle
    /\ arg \in [notes : [StaleNoteIds -> {Meta(NoDate, "context", cr) :
                                            cr \in {NoDate} \cup StaleDates}],
                store : [StaleNoteIds -> PointStates],
                clientFails : BOOLEAN]
    /\ ret = {}
    /\ called = FALSE

NextStale == FindStale

SpecStale == InitStale /\ [][NextStale]_vars

\* last_retrieved as the claim reads it: from the payload of the note's point,
\* else the created date
LastRetrieved(n) ==
    IF ~arg.clientFails /\ arg.store[n].kind = "point"
          /\ arg.store[n].last_retrieved.kind = "date"
    THEN arg.store[n].last_retrieved.day
    ELSE created_of(arg.notes[n])

\* C30: a note is flagged stale if and only if created <= today -
\* REFLECT_STALE_DAYS and last_retrieved <= today - REFLECT_STALE_DAYS, where
\* last_retrieved comes from the note's vector payload and is the created date
\* when the note has no payload in the vector store (stated for the notes
\* whose lookup in the store does not raise).
C30_StaleIff ==
    called =>
        \A n \in StaleNoteIds :
            (arg.clientFails \/ arg.store[n].kind # "raises") =>
                (n \in ret <=> (created_of(arg.notes[n]) <= StaleCutoff
                                   /\ LastRetrieved(n) <= StaleCutoff))

\* the same, for notes that have a point in a vector store that answers
C30_HoldsForIndexedNotes ==
    called =>
        \A n \in StaleNoteIds :
            (arg.clientFails \/ arg.store[n].kind = "point") =>
                (n \in ret <=> (created_of(arg.notes[n]) <= StaleCutoff
                                   /\ LastRetrieved(n) <= StaleCutoff))

\* ---------------------------------------------------------------------
\* process_ticket: the note write followed by the graph-cache patch, with
\* the fact kept in `call` and the vault before it in `prev`
\* ---------------------------------------------------------------------

\* process_ticket lines 821 and 828
PatchFact(note_id, content, relation) ==
    /\ npatch < MaxPatches
    /\ vault' = write_note(vault, note_id, content, relation).vault
    /\ gcache' = update_graph_cache_incremental(gcache, note_id, content, relation)
    /\ npatch' = npatch + 1
    /\ prev' = vault
    /\ call' = [note_id |-> note_id, content |-> content, relation |-> relation]
    /\ UNCHANGED <<written, ncalls, queueVars, linkVars, retrVars, fileVars, moreVars>>

NextPatch ==
    \E note_id \in {"a", "n"}, content \in GraphFactContents, relation \in GraphRelations :
        PatchFact(note_id, content, relation)

SpecPatch == InitGraph /\ [][NextPatch]_vars

\* the note the last fact affected: the target for UPDATES/EXTENDS, else the fact's id
AffectedNote == actual_id_of(call.note_id, call.relation)

\* the valid wikilinks of a content, given the ids the cache knows
ValidLinks(content) == incremental_links(content, DOMAIN gcache.outbound)

\* C31: after process_ticket has applied a fact and patched the graph cache,
\* outbound[affected_id] is the list of valid wikilinks of the affected
\* note's file as it now stands, for NEW, UPDATES and EXTENDS alike.
C31_OutboundMatchesFile ==
    (npatch > 0 /\ AffectedNote \in DOMAIN vault) =>
        /\ AffectedNote \in DOMAIN gcache.outbound
        /\ gcache.outbound[AffectedNote] = ValidLinks(vault[AffectedNote])

\* the same, for every fact but an EXTENDS of an existing note
C31_HoldsUnlessExtended ==
    (npatch > 0 /\ AffectedNote \in DOMAIN vault
        /\ ~(call.relation.kind = "EXTENDS" /\ call.relation.target \in DOMAIN prev)) =>
        /\ AffectedNote \in DOMAIN gcache.outbound
        /\ gcache.outbound[AffectedNote] = ValidLinks(vault[AffectedNote])

\* ---------------------------------------------------------------------
\* The two link parsers on the same content and the same known ids
\* ---------------------------------------------------------------------

ParseIds == {"a", "b", "long60", "two words"}

\* `[[X]]` and `[[X|display]]` for a known id, a long id, an id with a blank
\* and an unknown id
ParseLines ==
    {Ln("link", "a"), Ln("linkd", "b"), Ln("linkd", "a"), Ln("link", "long60"),
     Ln("linkd", "two words"), Ln("link", "zz")}

ParseLinks ==
    /\ ~called
    /\ ret' = [full |-> build_links(arg.content, arg.known_ids),
               incremental |-> incremental_links(arg.content, arg.known_ids)]
    /\ called' = TRUE
    /\ UNCHANGED arg
    /\ UNCHANGED pureRest

InitParse ==
    /\ vault = <<>>
    /\ NoteIdle
    /\ PureRestIdle
    /\ arg \in [content : StringsUpTo(ParseLines, MaxParseLinks),
                known_ids : {{"a"}, {"a", "b"}, ParseIds}]
    /\ ret = [full |-> <<>>, incremental |-> <<>>]
    /\ called = FALSE

NextParse == ParseLinks

SpecParse == InitParse /\ [][NextParse]_vars

\* the links the claim retains: the targets X of `[[X]]` and `[[X|display]]`
\* without blank, shorter than 60 characters and known, first occurrences in order
RetainedLinks ==
    Dedup(SelectSeq(LinkTargets(arg.content, {"link", "linkd"}),
                    LAMBDA x : x \in arg.known_ids \ (LongIds \cup BlankIds)))

\* C32: the full build and the incremental patch extract the same outbound
\* links from the same content and known ids: `[[X]]` or `[[X|display]]` is
\* retained as X exactly when X has no whitespace, is shorter than 60
\* characters and is a known id, in first-occurrence order without duplicates.
C32_SameLinks ==
    called =>
        /\ ret.full = ret.incremental
        /\ ret.full = RetainedLinks

\* the same, for contents without a `[[X|display]]` link
C32_HoldsWithoutDisplayLinks ==
    (called /\ \A i \in 1..Len(arg.content) : arg.content[i].k # "linkd") =>
        /\ ret.full = ret.incremental
        /\ ret.full = RetainedLinks

\* the incremental patch alone does what the claim says
C32_IncrementalAsClaimed == called => ret.incremental = RetainedLinks

\* ---------------------------------------------------------------------
\* Sequences of EXTENDS facts on existing notes
\* ---------------------------------------------------------------------

\* a note written with `\r\n` line ends after its body
CrLfNote(desc, body) == FullNote(desc, body) \o <<Ch("cr"), Ch("lf")>>

ExtendVaults ==
    { ("a" :> FullNote("d0", "old")) @@ ("b" :> PlainText("w")),
      ("a" :> CrLfNote("d0", "old")) @@ ("b" :> PlainText("w")) }

InitExtend ==
    /\ vault \in ExtendVaults
    /\ NoteIdle
    /\ OthersIdleForNote

NextExtend ==
    \E note_id \in NoteIds, content \in FactContents, t \in Targets :
        /\ t \in DOMAIN vault
        /\ WriteNote(note_id, content, Rel("EXTENDS", t))

SpecExtend == InitExtend /\ [][NextExtend]_vars

\* C33: every EXTENDS fact applied to an existing target leaves the target's
\* file as its content before the fact followed by one extension block, so
\* after a sequence of them the file is the content before the sequence
\* followed by one block per fact in order; earlier content is never removed
\* or reordered and no <note_id>.md is created for the extending fact.
C33_ExtendsOnlyAppends ==
    [][ncalls' # ncalls =>
          LET t == call'.relation.target
          IN  /\ vault'[t] = vault[t] \o Extension(call'.note_id, call'.content)
              /\ DOMAIN vault' = DOMAIN vault
              /\ \A o \in DOMAIN vault \ {t} : vault'[o] = vault[o]
    ]_vars

\* the same, for targets whose file holds no carriage return
C33_HoldsWithoutCarriageReturn ==
    [][(ncalls' # ncalls /\ Ch("cr") \notin Range(vault[call'.relation.target])) =>
          LET t == call'.relation.target
          IN  /\ vault'[t] = vault[t] \o Extension(call'.note_id, call'.content)
              /\ DOMAIN vault' = DOMAIN vault
              /\ \A o \in DOMAIN vault \ {t} : vault'[o] = vault[o]
    ]_vars

\* ---------------------------------------------------------------------
\* process_ticket: which facts the semantic-duplicate check is run for
\* ---------------------------------------------------------------------

\* the duplicate check was run for the last fact
DupAsked == lastFact.store # ""

\* C34: the semantic-duplicate check runs only for facts whose relation is
\* NEW; on a hit that returns a note id the relation becomes EXTENDS:<dup_id>
\* before the write; a fact emitted as UPDATES or EXTENDS is applied with the
\* relation it carried, even when the check would match.
C34_DedupOnlyForNew ==
    ncalls > 0 =>
        /\ DupAsked <=> lastFact.relation.kind = "NEW"
        /\ (lastFact.relation.kind = "NEW" /\ lastFact.answer.is_dup
               /\ lastFact.answer.target_id # "")
              => call.relation = Rel("EXTENDS", lastFact.answer.target_id)
        /\ (lastFact.relation.kind = "NEW"
               /\ ~(lastFact.answer.is_dup /\ lastFact.answer.target_id # ""))
              => call.relation = lastFact.relation
        /\ lastFact.relation.kind \in {"UPDATES", "EXTENDS"} =>
              /\ call.relation = lastFact.relation
              /\ lastFact.answer = DupAnswer(FALSE, "")
              /\ ~lastFact.fails =>
                    vault = write_note(prev, lastFact.note_id, lastFact.content,
                                       lastFact.relation).vault

\* an UPDATES:a fact whose content is close to note b is applied as UPDATES:a
C34_Witness ==
    /\ ncalls > 0
    /\ lastFact.relation = Rel("UPDATES", "a")
    /\ lastFact.nearest = "b"
    /\ ~lastFact.fails
    /\ call.relation = Rel("UPDATES", "a")
    /\ "b" \in DOMAIN prev
    /\ "b" \in DOMAIN vault
    /\ vault["b"] = prev["b"]

\* a NEW fact whose content is close to note a is applied as EXTENDS:a
C34_WitnessRewritten ==
    /\ ncalls > 0
    /\ lastFact.relation = Rel("NEW", "")
    /\ lastFact.nearest = "a"
    /\ call.relation = Rel("EXTENDS", "a")

\* ---------------------------------------------------------------------
\* extract_conversation: the turns kept for the extractor (process_queue.py)
\* An event of the transcript is [kind, len]: a user or assistant text of
\* len characters (after the cap of 2000), or something without text.
\* ---------------------------------------------------------------------

TranscriptEvents ==
    {[kind |-> k, len |-> l] : k \in {"user", "assistant"}, l \in {1, 3}}
        \cup {[kind |-> "tool", len |-> 0], [kind |-> "user", len |-> 0]}

\* max_chars
CharBudgets == {0, 9, 16, 25}

\* len(f"{role.upper()}: ")
RolePrefix(role) == IF role = "user" THEN 6 ELSE 11

\* the text turns, each with its position in the transcript and its length
TextTurns(events) ==
    LET idx == SelectSeq([i \in 1..Len(events) |-> i],
                         LAMBDA i : events[i].kind \in {"user", "assistant"}
                                       /\ events[i].len > 0)
    IN  [j \in 1..Len(idx) |->
            [pos |-> idx[j], len |-> RolePrefix(events[idx[j]].kind) + events[idx[j]].len]]

RECURSIVE select_skipping(_, _)
\* a plausible slip: `continue` in place of `break`
select_skipping(turns, max_chars) ==
    IF turns = <<>> THEN <<>>
    ELSE LET turn == turns[Len(turns)]
             rest == SubSeq(turns, 1, Len(turns) - 1)
         IN  IF turn.len + 2 > max_chars THEN select_skipping(rest, max_chars)
             ELSE Append(select_skipping(rest, max_chars - (turn.len + 2)), turn)

RECURSIVE select_last_turns(_, _)
\* the loop over reversed(turns), then selected.reverse(); max_chars is what
\* is left of the budget
select_last_turns(turns, max_chars) ==
    IF turns = <<>> THEN <<>>
    ELSE LET turn == turns[Len(turns)]
             rest == SubSeq(turns, 1, Len(turns) - 1)
         IN  IF turn.len + 2 > max_chars THEN <<>>
             ELSE Append(select_last_turns(rest, max_chars - (turn.len + 2)), turn)

extract_conversation(events, max_chars) ==
    [selected |-> select_last_turns(TextTurns(events), max_chars),
     total_turns |-> Len(TextTurns(events))]

ExtractConversation ==
    /\ ~called
    /\ ret' = extract_conversation(arg.events, arg.max_chars)
    /\ called' = TRUE
    /\ UNCHANGED arg
    /\ UNCHANGED pureRest

InitExtract ==
    /\ vault = <<>>
    /\ NoteIdle
    /\ PureRestIdle
    /\ arg \in [events : StringsUpTo(TranscriptEvents, MaxTranscript), max_chars : CharBudgets]
    /\ ret = [selected |-> <<>>, total_turns |-> 0]
    /\ called = FALSE

NextExtract == ExtractConversation

SpecExtract == InitExtract /\ [][NextExtract]_vars

RECURSIVE SumTurnChars(_)
SumTurnChars(q) == IF q = <<>> THEN 0 ELSE Head(q).len + 2 + SumTurnChars(Tail(q))

\* C35: extract_conversation returns a contiguous suffix of the transcript's
\* text turns in chronological order: if a turn is included, every later turn
\* is included, the included turns keep their order, and the sum over the
\* included turns of (length + 2) is at most max_chars.
C35_ContiguousSuffix ==
    called =>
        LET turns    == TextTurns(arg.events)
            selected == ret.selected
        IN  /\ Len(selected) <= Len(turns)
            /\ selected = SubSeq(turns, Len(turns) - Len(selected) + 1, Len(turns))
            /\ \A i, j \in 1..Len(selected) : i < j => selected[i].pos < selected[j].pos
            /\ \A t \in Range(turns) :
                  t \in Range(selected) =>
                     \A u \in Range(turns) : u.pos > t.pos => u \in Range(selected)
            /\ SumTurnChars(selected) <= arg.max_chars
            /\ ret.total_turns = Len(turns)

\* three text turns of which the last two fit and the first does not, although
\* the first alone is shorter than what is left of the budget plus the second
C35_Witness ==
    /\ called
    /\ Len(TextTurns(arg.events)) = 3
    /\ Len(ret.selected) = 2
    /\ ret.selected[1].pos = 2
    /\ ret.selected[2].pos = 3
    /\ SumTurnChars(ret.selected) < arg.max_chars

\* ---------------------------------------------------------------------
\* process_ticket: what one fact does to the vault, the source chunks, the
\* graph cache and the vector store (lines 821 to 836)
\* ---------------------------------------------------------------------

TicketNoteIds == {"a", "k"}

\* upsert_note_async(actual_id): vault_embed.py --note actual_id reads the
\* file of that id, if there is one, and upserts its point
upsert_note_async(pts, v, actual_id) == Upserted(pts, get_notes_to_embed(v, {actual_id}))

TicketFact(note_id, content, relation, conversation) ==
    /\ npatch < MaxPatches
    /\ LET v  == write_note(vault, note_id, content, relation).vault
           st == save_source_chunk([dir |-> chunkDir, files |-> chunks], chunksOn,
                                   note_id, relation, conversation, "none")
       IN  /\ vault' = v
           /\ chunkDir' = st.dir
           /\ chunks' = st.files
           /\ gcache' = update_graph_cache_incremental(gcache, note_id, content, relation)
           /\ points' = upsert_note_async(points, v, actual_id_of(note_id, relation))
    /\ npatch' = npatch + 1
    /\ prev' = vault
    /\ call' = [note_id |-> note_id, content |-> content, relation |-> relation]
    /\ UNCHANGED <<written, ncalls, chunksOn, lastSave, nsave, bm25>>
    /\ UNCHANGED <<queueVars, linkVars, retrVars, fileVars, factVars, indexVars, reflVars,
                   blockVars, pureVars, workerVars>>

InitTicket ==
    /\ vault \in GraphVaults
    /\ NoteIdle
    /\ QueueIdle /\ LinksIdle /\ RetrieveIdle /\ FileIdle /\ FactIdle /\ IndexIdle
    /\ ReflectIdle /\ BlockIdle /\ PureIdle /\ WorkerIdle
    /\ gcache = build_graph_index(vault)
    /\ npatch = 0
    /\ points = [id \in DOMAIN vault |-> NewPayload]
    /\ bm25 = {}
    /\ chunkDir = FALSE
    /\ chunks = <<>>
    /\ chunksOn = TRUE
    /\ lastSave = NoSave
    /\ nsave = 0

NextTicket ==
    \E note_id \in TicketNoteIds, content \in GraphFactContents, relation \in GraphRelations,
       conversation \in StringsUpTo(ConvChars, 1) :
        TicketFact(note_id, content, relation, conversation)

SpecTicket == InitTicket /\ [][NextTicket]_vars

\* the last fact named a target that had no file, so it was written as a NEW
\* note under its own note_id
WrittenAsNewForMissingTarget ==
    /\ npatch > 0
    /\ call.relation.kind \in {"UPDATES", "EXTENDS"}
    /\ call.relation.target \notin DOMAIN prev

\* C36: when a fact's UPDATES/EXTENDS target is missing and the fact is
\* written as a NEW note named by its own note_id, the source chunk, the
\* graph-cache entry and the vector upsert use the id of the note file that
\* was written; after process_ticket every outbound key of the graph cache
\* and every source chunk names a note whose file exists in the vault.
C36_SameIdAsWrittenFile ==
    /\ WrittenAsNewForMissingTarget =>
          /\ call.note_id \in DOMAIN vault
          /\ call.note_id \in DOMAIN chunks
          /\ call.note_id \in DOMAIN gcache.outbound
          /\ call.note_id \in DOMAIN points
    /\ DOMAIN gcache.outbound \subseteq DOMAIN vault
    /\ DOMAIN chunks \subseteq DOMAIN vault

\* the same for the facts whose target exists and for NEW facts
C36_HoldsWhenTargetExists ==
    (npatch > 0 /\ ~WrittenAsNewForMissingTarget) =>
        LET id == actual_id_of(call.note_id, call.relation)
        IN  /\ id \in DOMAIN vault
            /\ id \in DOMAIN chunks
            /\ id \in DOMAIN gcache.outbound
            /\ id \in DOMAIN points

\* the file written is the fact's own note_id, and nothing else names it
C36_MissingTargetWritesOwnId ==
    (WrittenAsNewForMissingTarget /\ call.note_id # call.relation.target) =>
        /\ call.note_id \in DOMAIN vault
        /\ call.relation.target \notin DOMAIN vault
        /\ call.relation.target \in DOMAIN chunks
        /\ call.relation.target \in DOMAIN gcache.outbound

\* ---------------------------------------------------------------------
\* last_retrieved in the vector payload, under retrievals, single-note
\* upserts and full rebuilds.  meta holds the created date of each note.
\* ---------------------------------------------------------------------

CreatedDays == {1, Today}

\* the retrieval hook surfaces some notes and stamps them
RetrieveNotes ==
    /\ \E ids \in SeqsUpTo({"a", "b"}, 2) :
          /\ ids # <<>>
          /\ points' = update_last_retrieved(points, ids, 0)
    /\ UNCHANGED <<bm25, indexVars>>
    /\ UNCHANGED <<graphVars, indexRest>>

InitLastRetrieved ==
    /\ vault \in IndexVaults
    /\ NoteIdle
    /\ GraphIdle
    /\ QueueIdle /\ LinksIdle /\ RetrieveIdle /\ FileIdle /\ FactIdle /\ BlockIdle /\ TailIdle
    /\ IndexIdle
    /\ points \in {[x \in S |-> NewPayload] : S \in {{}, {"a", "b"}}}
    /\ bm25 = {}
    /\ archive = <<>>
    /\ lastArchive = NoArchive
    /\ meta \in [{"a", "b"} -> {Meta(NoDate, "context", Date(d)) : d \in CreatedDays}]
    /\ ttl = <<>>
    /\ expiredOut = NoExpired
    /\ others = 0
    /\ lastReflect = NoReflect

NextLastRetrieved ==
    \/ RetrieveNotes
    \/ SingleUpsert
    \/ FullRebuild

SpecLastRetrieved == InitLastRetrieved /\ [][NextLastRetrieved]_vars

\* the day a payload value stands for
LastRetrievedDay(pts, n) ==
    IF pts[n].last_retrieved = "today" THEN Today ELSE meta[n].created.day

\* C37: a note's last_retrieved value in the vector payload never moves
\* backwards: once a retrieval has set it to a date d, it stays >= d through
\* later single-note upserts and full rebuilds.
C37_NeverMovesBackwards ==
    [][\A n \in DOMAIN meta :
          (n \in DOMAIN points /\ points[n].last_retrieved = "today") =>
              (n \in DOMAIN points' /\ LastRetrievedDay(points', n) >= Today)]_vars

\* it holds for the notes created on the day of the retrieval
C37_HoldsForNotesCreatedToday ==
    [][\A n \in DOMAIN meta :
          (n \in DOMAIN points /\ points[n].last_retrieved = "today"
              /\ meta[n].created.day = Today) =>
              (n \in DOMAIN points' /\ LastRetrievedDay(points', n) >= Today)]_vars

\* ---------------------------------------------------------------------
\* write_note and the notes that exist already (SpecNote)
\* ---------------------------------------------------------------------

\* what the last call did to the note id that existed before it
KeptOrUpdatedOrExtended(id) ==
    /\ id \in DOMAIN vault
    /\ \/ vault[id] = prev[id]
       \/ call.relation = Rel("UPDATES", id)
       \/ call.relation = Rel("EXTENDS", id) /\ IsPrefixOf(prev[id], vault[id])

\* C38: a fact with relation NEW never replaces the content of a note that
\* already exists: the content of an existing note file is replaced only by
\* an UPDATES relation that targets it, and is otherwise only appended to
\* (EXTENDS).
C38_NewNeverReplaces ==
    ncalls > 0 => \A id \in DOMAIN prev : KeptOrUpdatedOrExtended(id)

\* the same for the calls that find their target, and for those that write
\* an id no note has yet
C38_HoldsForFreshIds ==
    (ncalls > 0 /\ (TargetExisted \/ call.note_id \notin DOMAIN prev)) =>
        \A id \in DOMAIN prev : KeptOrUpdatedOrExtended(id)

\* a NEW fact whose note_id is that of an existing note takes its place
C38_NewReplacesExisting ==
    (ncalls > 0 /\ call.relation.kind = "NEW" /\ call.note_id \in DOMAIN prev) =>
        vault[call.note_id] = _inject_frontmatter_field(call.content, "relation", "new")

\* ---------------------------------------------------------------------
\* process_ticket: the file stem a fact's note is written under
\* ---------------------------------------------------------------------

\* note_id = fact.get("note_id", "").strip(); `if not note_id: continue`;
\* note_id = sanitize_note_id(note_id).  The result of the sanitizing is not
\* tested again.
fact_note_id(raw) ==
    LET inner   == {i \in 1..Len(raw) : raw[i] # " "}
        note_id == IF inner = {} THEN <<>>
                   ELSE SubSeq(raw, Min(inner), CHOOSE i \in inner : \A j \in inner : j <= i)
    IN  IF note_id = <<>> THEN [skipped |-> TRUE, note_id |-> <<>>]
        ELSE [skipped |-> FALSE, note_id |-> sanitize_note_id(note_id)]

FactNoteId ==
    /\ ~called
    /\ ret' = fact_note_id(arg)
    /\ called' = TRUE
    /\ UNCHANGED arg
    /\ UNCHANGED pureRest

InitNoteId ==
    /\ vault = <<>>
    /\ NoteIdle
    /\ PureRestIdle
    /\ arg \in StringsUpTo(IdChars, MaxTail)
    /\ ret = [skipped |-> TRUE, note_id |-> <<>>]
    /\ called = FALSE

NextNoteId == FactNoteId

SpecNoteId == InitNoteId /\ [][NextNoteId]_vars

IsSlug(r) ==
    /\ r # <<>>
    /\ \A i \in 1..Len(r) : r[i] \in SlugChars
    /\ r[1] # "-" /\ r[Len(r)] # "-"
    /\ \A i \in 1..(Len(r) - 1) : ~(r[i] = "-" /\ r[i + 1] = "-")

\* C39: every note file that process_ticket creates has a file stem that is
\* a non-empty valid slug equal to sanitize_note_id of the id the extractor
\* returned; no file with an empty stem (`.md`) is ever written.
C39_StemIsNonEmptySlug ==
    (called /\ ~ret.skipped) =>
        /\ IsSlug(ret.note_id)
        /\ ret.note_id = sanitize_note_id(arg)

\* the same for the ids that hold a letter or a digit
C39_HoldsForIdsWithLetterOrDigit ==
    (called /\ ~ret.skipped /\ \E i \in 1..Len(arg) : arg[i] \in {"a", "Z", "7", "eacute"}) =>
        /\ IsSlug(ret.note_id)
        /\ ret.note_id = sanitize_note_id(arg)

\* an id made of characters that all become `-` is not skipped and gives the
\* empty stem
C39_EmptyStemOnlyWithoutLetterOrDigit ==
    (called /\ ~ret.skipped /\ ret.note_id = <<>>) =>
        /\ arg # <<>>
        /\ \A i \in 1..Len(arg) : arg[i] \in {"-", " ", "acute"}
        /\ \E i \in 1..Len(arg) : arg[i] # " "

\* ---------------------------------------------------------------------
\* Retrievals after the reflector has archived notes.  bm25 is the set of
\* note ids of the persistent BM25 index ({}: no index file, bm25_search
\* scans the vault); the graph cache is the one of the last full rebuild.
\* ---------------------------------------------------------------------

ForgetOrder == <<"a", "b", "c">>

ForgetVault ==
    ("a" :> Linked("A", <<<<"link", "b">>>>)) @@ ("b" :> Linked("B", <<<<"link", "c">>>>))
        @@ ("c" :> Linked("C", <<<<"link", "a">>>>))

\* the documents bm25_search scores: _load_bm25_index(), else _build_live_index()
keyword_docs(index, v) ==
    IF index # {} THEN index
    ELSE {p \in DOMAIN v : ~(StartsWithDot(p) \/ StartsWithUnderscore(p))}

\* main of the retrieval hook: vector search, keyword search, fusion, the
\* primary block, the graph block, update_last_retrieved
RetrieveOnce ==
    /\ bpc = "idle"
    /\ \E vec \in SUBSET DOMAIN points, kw \in SUBSET keyword_docs(bm25, vault) :
          LET vector_hits  == SelectSeq(ForgetOrder, LAMBDA x : x \in vec)
              keyword_hits == SelectSeq(ForgetOrder, LAMBDA x : x \in kw)
              p     == rrf_merge(vector_hits, keyword_hits, RRF_K, RRF_FINAL_TOP_K)
              cands == collect_bfs_candidates(p, gcache.outbound, gcache.backlinks)
              sc    == scored_and_padded(cands, points, ForgetOrder, FALSE, vault)
          IN  /\ p # <<>>
              /\ primary_ids' = p
              /\ candidate_ids' = cands
              /\ gblock' = sc
              /\ points' = update_last_retrieved(points, all_surfaced(p, sc), 0)
    /\ bpc' = "done"
    /\ UNCHANGED <<sim, scoredList, patchFailed, bm25>>
    /\ UNCHANGED <<noteVars, queueVars, graphVars, linkVars, retrVars, fileVars, factVars,
                   indexVars, reflVars, tailVars>>

\* the hook's process ends
RetrieveExit ==
    /\ bpc = "done"
    /\ bpc' = "idle"
    /\ primary_ids' = <<>>
    /\ candidate_ids' = <<>>
    /\ gblock' = <<>>
    /\ UNCHANGED <<sim, scoredList, patchFailed, storeVars>>
    /\ UNCHANGED <<noteVars, queueVars, graphVars, linkVars, retrVars, fileVars, factVars,
                   indexVars, reflVars, tailVars>>

InitForget ==
    /\ vault = ForgetVault
    /\ NoteIdle
    /\ QueueIdle /\ LinksIdle /\ RetrieveIdle /\ FileIdle /\ FactIdle /\ IndexIdle
    /\ BlockIdle /\ TailIdle
    /\ gcache = build_graph_index(vault)
    /\ npatch = 0
    /\ points = [x \in DOMAIN vault |-> NewPayload]
    /\ bm25 \in {{}, DOMAIN vault}
    /\ archive = <<>>
    /\ lastArchive = NoArchive
    /\ meta = <<>>
    /\ ttl = <<>>
    /\ expiredOut = NoExpired
    /\ others = 0
    /\ lastReflect = NoReflect

NextForget ==
    \/ ArchiveExpired
    \/ RetrieveOnce
    \/ RetrieveExit

SpecForget == InitForget /\ [][NextForget]_vars

\* the notes the reflector has archived
Archived == DOMAIN archive \ DOMAIN vault

\* a retrieval has just printed its blocks
Retrieved == bpc = "idle" /\ bpc' = "done"

\* C40: after the reflector has archived a note, no retrieval, even one that
\* runs before the next full index rebuild, emits that note's id in the
\* primary block or in the graph block.
C40_ArchivedNeverEmitted ==
    [][Retrieved =>
          /\ Range(primary_ids') \cap Archived = {}
          /\ Range(EntryIds(gblock')) \cap Archived = {}]_vars

\* the same without a persistent BM25 index, when the points of the archived
\* notes were deleted
C40_HoldsWithLiveScan ==
    [][(Retrieved /\ bm25 = {} /\ DOMAIN points \cap Archived = {}) =>
          /\ Range(primary_ids') \cap Archived = {}
          /\ Range(EntryIds(gblock')) \cap Archived = {}]_vars

\* the graph block never names an archived note whose point was deleted
C40_GraphBlockHolds ==
    [][(Retrieved /\ DOMAIN points \cap Archived = {}) =>
          Range(EntryIds(gblock')) \cap Archived = {}]_vars

====
